---- MODULE Spec2Model ----
(***************************************************************************)
(* A model of the enhanced AI backend of docusaurus-openai-search-backend  *)
(* (src/src/index.ts): the response validator, the query classifier, the   *)
(* in-memory session store with its periodic sweep, and the request flow   *)
(* of the answer-generation endpoints.                                     *)
(*                                                                         *)
(* Texts (answers, queries) are TLA+ strings; the regular expressions of   *)
(* the source are operators that scan them character by character.         *)
(***************************************************************************)
EXTENDS Integers, Sequences, FiniteSets, TLC

VARIABLES
    answer,       \* validateAIResponse: the answer text handed to the validator
    documents,    \* validateAIResponse: the document list handed to the validator
    validation,   \* validateAIResponse: the ValidationResult returned, or NoResult
    query,        \* analyzeQueryIntent: the query value handed to the classifier
    reply,        \* analyzeQueryIntent: what the model completion call came back with
    analysis,     \* analyzeQueryIntent: how the call ended (returned value or raised)
    now,                  \* Date.now(), in milliseconds since the process started
    nextSweepAt,          \* when the setInterval cleanup callback is next due
    lastSweepAt,          \* when the cleanup callback last ran (-1: never)
    sessionObjs,          \* the ConversationSession objects ever created, by id
    conversationSessions, \* the ids that are keys of the conversationSessions Map
    appended,             \* per session object, every turn ever pushed, in push order
    reqs,                 \* the requests in flight or answered, by slot
    started,              \* number of requests received so far
    history,              \* the last response of GET /api/session/:sessionId/history
    enhancerEnabled,      \* recursiveEnhancer.isEnabled()
    sources,              \* aggregateMultiSourceResults: the lists and the call outcome handed in
    aggregated,           \* aggregateMultiSourceResults: how the call ended, or NoResult
    chat,                 \* Redis-backed variant: the chat-completion request in progress
    redisClient,          \* Redis-backed variant: whether getRedisClient() is a client
    cacheEnabled,         \* Redis-backed variant: ENABLE_CACHE === 'true'
    redisStore,           \* Redis-backed variant: the keys of the Redis server, with their expiry
    limiter,              \* the rate limiter mounted on /api/ and the counters of its store
    captcha,              \* the reCAPTCHA middleware and the request passing through it
    discourseCache,       \* DiscourseResponseCache: its Map, its stats and the last call made
    discourseMetrics,     \* the discourseMetrics object and the number of calls logged
    discourseCheck        \* validateDiscourseResponse: its arguments and its result

valVars == <<answer, documents, validation>>
clsVars == <<query, reply, analysis>>
clockVars == <<now, nextSweepAt, lastSweepAt>>
sessVars == <<sessionObjs, conversationSessions, appended>>
reqVars == <<reqs, started, enhancerEnabled>>
srvVars == <<now, nextSweepAt, lastSweepAt, sessionObjs, conversationSessions, appended,
             reqs, started, history, enhancerEnabled>>
aggVars == <<sources, aggregated>>
redisVars == <<chat, redisClient, cacheEnabled, redisStore>>
gateVars == <<limiter, captcha>>
discVars == <<discourseCache, discourseMetrics, discourseCheck>>
\* the variables of the functions checked on their own
pureVars == <<answer, documents, validation, query, reply, analysis, sources, aggregated>>
\* the variables that no handler of src/src/index.ts touches
offVars == <<answer, documents, validation, query, reply, analysis, sources, aggregated,
             chat, redisClient, cacheEnabled, redisStore, limiter, captcha,
             discourseCache, discourseMetrics, discourseCheck>>
vars == <<answer, documents, validation, query, reply, analysis, sources, aggregated,
          now, nextSweepAt, lastSweepAt, sessionObjs, conversationSessions, appended,
          reqs, started, history, enhancerEnabled, chat, redisClient, cacheEnabled,
          redisStore, limiter, captcha, discourseCache, discourseMetrics, discourseCheck>>

NoResult == [none |-> TRUE]

(***************************************************************************)
(* Characters and strings                                                  *)
(***************************************************************************)
\* U+0060 (the backtick) cannot be written inside a TLA+ string; the texts of
\* the model hold "~" where the JavaScript text holds a backtick.
BT == "~"
BT3 == "~~~"
NL == "\n"

At(s, i) == IF i >= 1 /\ i <= Len(s) THEN SubSeq(s, i, i) ELSE ""

\* \s of a JavaScript regular expression, over the characters the texts use
IsWS(c) == c \in {" ", "\n", "\t"}
\* \d
IsDigit(c) == c \in {"0", "1", "2", "3", "4", "5", "6", "7", "8", "9"}

\* String.prototype.toLowerCase, one character
LowerOf ==
    [A |-> "a", B |-> "b", C |-> "c", D |-> "d", E |-> "e", F |-> "f", G |-> "g",
     H |-> "h", I |-> "i", J |-> "j", K |-> "k", L |-> "l", M |-> "m", N |-> "n",
     O |-> "o", P |-> "p", Q |-> "q", R |-> "r", S |-> "s", T |-> "t", U |-> "u",
     V |-> "v", W |-> "w", X |-> "x", Y |-> "y", Z |-> "z"]
LowerChar(c) == IF c \in DOMAIN LowerOf THEN LowerOf[c] ELSE c

RECURSIVE toLowerCase(_)
toLowerCase(s) ==
    IF s = "" THEN ""
    ELSE IF Len(s) = 1 THEN LowerChar(s)
    ELSE LET h == Len(s) \div 2
         IN  toLowerCase(SubSeq(s, 1, h)) \o toLowerCase(SubSeq(s, h + 1, Len(s)))

\* the literal lit stands in s at position i
LitAt(s, i, lit) ==
    /\ i >= 1
    /\ i + Len(lit) - 1 <= Len(s)
    /\ SubSeq(s, i, i + Len(lit) - 1) = lit

\* a regular expression that is one literal, tested anywhere in s
Contains(s, lit) == \E i \in 1..Len(s) : LitAt(s, i, lit)

\* "." matches every character but a line terminator: s[a..b] holds none
NoNL(s, a, b) == \A k \in a..b : At(s, k) # NL

\* /a.*b.*c/ tested anywhere in s
GapMatch3(s, a, b, c) ==
    \E i \in 1..Len(s) :
        /\ LitAt(s, i, a)
        /\ \E j \in (i + Len(a))..Len(s) :
            /\ LitAt(s, j, b)
            /\ NoNL(s, i + Len(a), j - 1)
            /\ \E k \in (j + Len(b))..Len(s) :
                /\ LitAt(s, k, c)
                /\ NoNL(s, j + Len(b), k - 1)

\* the first index at or after p that holds no white space (Len(s)+1 if none)
SkipWS(s, p) ==
    CHOOSE q \in p..(Len(s) + 1) :
        /\ q = Len(s) + 1 \/ ~IsWS(At(s, q))
        /\ \A k \in p..(q - 1) : IsWS(At(s, k))

Min(S) == CHOOSE m \in S : \A n \in S : m <= n

RECURSIVE Repeat(_, _)
Repeat(s, n) == IF n = 0 THEN "" ELSE s \o Repeat(s, n - 1)

(***************************************************************************)
(* JavaScript values of request bodies and of parsed model output          *)
(***************************************************************************)
JSValue(t, s, n, a) == [t |-> t, s |-> s, n |-> n, a |-> a]
Str(s) == JSValue("string", s, 0, <<>>)
Num(n) == JSValue("number", "", n, <<>>)
Arr(a) == JSValue("array", "", 0, a)
JSTrue == JSValue("boolean", "", 1, <<>>)
JSFalse == JSValue("boolean", "", 0, <<>>)
JSObject == JSValue("object", "", 0, <<>>)
JSNull == JSValue("null", "", 0, <<>>)
Undefined == JSValue("undefined", "", 0, <<>>)

\* ToBoolean: what !v and v || d test
Truthy(v) ==
    CASE v.t = "string" -> v.s # ""
      [] v.t = "number" -> v.n # 0
      [] v.t = "boolean" -> v.n = 1
      [] v.t \in {"null", "undefined"} -> FALSE
      [] OTHER -> TRUE

\* v || d
OrElse(v, d) == IF Truthy(v) THEN v ELSE d

\* ToString, as a template literal or RegExp.test applies it
JSToString(v) ==
    CASE v.t = "string" -> v.s
      [] v.t = "number" -> IF v.n = 0 THEN "0" ELSE "42"
      [] v.t = "boolean" -> IF v.n = 1 THEN "true" ELSE "false"
      [] v.t = "null" -> "null"
      [] v.t = "undefined" -> "undefined"
      [] v.t = "array" -> IF v.a = <<>> THEN "" ELSE v.a[1]
      [] OTHER -> "[object Object]"

(***************************************************************************)
(* Requests and the state of a freshly started server                      *)
(***************************************************************************)
OneHour == 60 * 60 * 1000
CleanupInterval == 10 * 60 * 1000
\* the step by which the model's clock advances
TickMs == 5 * 60 * 1000
MaxTurns == 10
Ok == 200
BadRequest == 400
NotFound == 404
InternalError == 500

Slots == {1, 2}

\* the kinds of external call a handler issues (ghost counters, per request)
CallKinds ==
    {"classification", "enhancement", "answer", "followup", "keywords",
     "github", "changelog", "aggregation"}
NoCalls == [k \in CallKinds |-> 0]
Issue(calls, k) == [calls EXCEPT ![k] = @ + 1]

\* the results of the three source searches of a multi-source request
NoneFound == [github |-> <<>>, blog |-> <<>>, changelog |-> <<>>]

NoResponse ==
    [status |-> 0, at |-> "", sessionId |-> 0, followUps |-> <<>>, score |-> -1,
     keywords |-> <<>>, sources |-> <<>>, confidence |-> -1]

IdleRequest ==
    [pc |-> "idle", endpoint |-> "", query |-> Undefined, documents |-> Undefined,
     sessionId |-> 0, session |-> 0, type |-> Undefined, template |-> "",
     enhanced |-> FALSE, resp |-> NoResponse,
     answer |-> Undefined, maxKeywords |-> Undefined, config |-> Undefined,
     pending |-> {}, found |-> NoneFound, touched |-> FALSE, calls |-> NoCalls]

\* count: how many turns had been appended to the session when it was read
NoHistory == [status |-> 0, sessionId |-> 0, turns |-> <<>>, count |-> 0]

\* Redis-backed variant (chat-completion route through OpenAIService): the
\* request in progress; sent counts the commands and calls sent for it
NoneSent == [provider |-> 0, cacheGet |-> 0, cacheSet |-> 0]
\* a chat-completion request body: id stands for the model and the messages
ChatBody(id, max_tokens) == [id |-> id, max_tokens |-> max_tokens]
NoBody == ChatBody("", 0)

\* response: what createChatCompletion returned; from: "cache" or "provider";
\* read: what getCachedResponse came back with ("value", "null", or "failed"
\* when the command failed and null was returned in its place)
\* written: the events written to a streaming response; ended: calls of
\* res.end(); yielded: chunks the provider's stream has yielded; finished:
\* how the streamed completion ended ("complete", "failed" or "" for not yet)
IdleChat ==
    [pc |-> "idle", stream |-> FALSE, status |-> 0, providerStatus |-> 0,
     sent |-> NoneSent, delay |-> 0, body |-> NoBody, response |-> "", from |-> "",
     read |-> "", written |-> <<>>, ended |-> 0, yielded |-> 0, finished |-> ""]

\* generateCacheKey: `openai:${sha256(JSON.stringify(data))}`, one key per body
generateCacheKey(data) == "openai:" \o data.id

\* the bodies sent: two that pass validateChatRequest of the service, and one
\* with max_tokens above 4096 (summarizeContent passes request.maxTokens on)
ChatBodies == {ChatBody("a", 1000), ChatBody("b", 256), ChatBody("c", 5000)}

\* a key of the Redis server: its value and the time at which it expires
NoCached == [value |-> "", expiry |-> 0]
EmptyStore == [k \in {generateCacheKey(b) : b \in ChatBodies} |-> NoCached]

\* the limiter of index.ts outside Vercel: in-memory store, nothing counted
IdleLimiter ==
    [variant |-> "enhanced", vercel |-> FALSE, store |-> "memory", hits |-> 0,
     redisHits |-> 0, made |-> 0, inflight |-> 0, last |-> "none"]

\* no verification response
NoVerdict == [kind |-> "none", success |-> FALSE, score |-> -1, action |-> ""]

\* RECAPTCHA_SECRET_KEY not set, no request in the middleware
IdleCaptcha ==
    [secret |-> FALSE, pc |-> "idle", endpoint |-> "", status |-> 0,
     verdict |-> NoVerdict, serial |-> -1]

\* the keys a caller of the cache uses
CacheKeys == {"discourse:support:a", "discourse:support:b"}

NoEntry == [response |-> "", expiry |-> -1]

\* new DiscourseResponseCache(): an empty Map, stats at zero, no call made.
\* lastSet is the entry of the latest set(key) since the latest clear().
EmptyCache ==
    [cache |-> [k \in CacheKeys |-> NoEntry],
     stats |-> [hits |-> 0, misses |-> 0, sets |-> 0],
     lastSet |-> [k \in CacheKeys |-> NoEntry],
     last |-> [op |-> "", key |-> "", result |-> NoEntry]]

\* the discourseMetrics object as exported; HIGH, MEDIUM, LOW are the counts
\* of confidence_distribution and extra the keys added to it; processing_sum
\* is avg_processing_time * requests_total; calls counts logDiscourseMetrics
NoMetrics ==
    [requests_total |-> 0, requests_successful |-> 0, requests_failed |-> 0,
     HIGH |-> 0, MEDIUM |-> 0, LOW |-> 0, extra |-> {}, processing_sum |-> 0,
     calls |-> 0]

DiscourseIdle ==
    /\ discourseCache = EmptyCache
    /\ discourseMetrics = NoMetrics
    /\ discourseCheck = NoResult

GateIdle == limiter = IdleLimiter /\ captcha = IdleCaptcha /\ DiscourseIdle

RedisIdle ==
    /\ chat = IdleChat
    /\ redisClient = FALSE
    /\ cacheEnabled = FALSE
    /\ redisStore = EmptyStore
    /\ GateIdle

\* the state after the module has been loaded: no session, no request
ServerIdle ==
    /\ now = 0
    /\ nextSweepAt = CleanupInterval
    /\ lastSweepAt = -1
    /\ sessionObjs = <<>>
    /\ conversationSessions = {}
    /\ appended = <<>>
    /\ reqs = [r \in Slots |-> IdleRequest]
    /\ started = 0
    /\ history = NoHistory
    /\ enhancerEnabled = FALSE
    /\ RedisIdle

(***************************************************************************)
(* Response validator: validateAIResponse (src/src/index.ts 197-262)       *)
(***************************************************************************)
ConfidenceWeight == 25
CitationWeight == 25
CodeWeight == 15
StepWeight == 15
NoSpeculationWeight == 10
LengthWeight == 10
LongAnswerWords == 50
BriefAnswerWords == 20
ValidScore == 60

WarnCitation == "Response should include source citations"
WarnConfidence == "Response should include confidence level"
WarnSpeculative == "Response contains speculative language"
WarnBrief == "Response may be too brief"
WarnReference == "Response should reference provided documents"

\* /\[Source:.*?\]\(.*?\)/ matched at position i: the index of the closing
\* parenthesis of the (lazy) match, 0 when there is no match at i
CitationEnd(s, i) ==
    IF ~LitAt(s, i, "[Source:") THEN 0
    ELSE LET js == {j \in (i + 8)..Len(s) : LitAt(s, j, "](") /\ NoNL(s, i + 8, j - 1)}
         IN  IF js = {} THEN 0
             ELSE LET j == Min(js)
                      ks == {k \in (j + 2)..Len(s) :
                                At(s, k) = ")" /\ NoNL(s, j + 2, k - 1)}
                  IN  IF ks = {} THEN 0 ELSE Min(ks)

\* answer.match(/\[Source:.*?\]\(.*?\)/g) || []: the number of matches, found
\* left to right from position p, each search resuming after the last match
RECURSIVE citations(_, _)
citations(s, p) ==
    LET starts == {i \in p..Len(s) : CitationEnd(s, i) > 0}
    IN  IF starts = {} THEN 0
        ELSE 1 + citations(s, CitationEnd(s, Min(starts)) + 1)

ConfidenceLevels == <<"high", "medium", "low">>
ConfidenceNames == <<"HIGH", "MEDIUM", "LOW">>

\* /Confidence:\s*(HIGH|MEDIUM|LOW)/i matched at position i of the lowered
\* text: the index in ConfidenceLevels of the captured level, 0 when no match
ConfidenceAt(ls, i) ==
    IF ~LitAt(ls, i, "confidence:") THEN 0
    ELSE LET q == SkipWS(ls, i + 11)
             hit == {n \in 1..3 : LitAt(ls, q, ConfidenceLevels[n])}
         IN  IF hit = {} THEN 0 ELSE Min(hit)

\* answer.match(/Confidence:\s*(HIGH|MEDIUM|LOW)/i): the captured level of
\* the leftmost match, 0 when the match is null. The i flag: ls is the
\* lowered answer and the pattern is written in lower case
confidenceMatch(ls) ==
    LET starts == {i \in 1..Len(ls) : ConfidenceAt(ls, i) > 0}
    IN  IF starts = {} THEN 0 ELSE ConfidenceAt(ls, Min(starts))

\* /couldn't find this information|not.*in.*documentation|no.*information.*available/i
notFoundPattern(ls) ==
    \/ Contains(ls, "couldn't find this information")
    \/ GapMatch3(ls, "not", "in", "documentation")
    \/ GapMatch3(ls, "no", "information", "available")

\* /```[\s\S]*?```|\`[^`]+\`/
hasCodeExamples(s) ==
    \/ \E i \in 1..Len(s) :
          LitAt(s, i, BT3) /\ \E j \in (i + 3)..Len(s) : LitAt(s, j, BT3)
    \/ \E i \in 1..Len(s) :
          /\ At(s, i) = BT
          /\ \E j \in (i + 2)..Len(s) :
                At(s, j) = BT /\ \A k \in (i + 1)..(j - 1) : At(s, k) # BT

\* /\d+\.\s|\n-\s|\n\*\s/
hasStepByStep(s) ==
    \E i \in 1..Len(s) :
        \/ IsDigit(At(s, i)) /\ At(s, i + 1) = "." /\ IsWS(At(s, i + 2))
        \/ At(s, i) = NL /\ At(s, i + 1) = "-" /\ IsWS(At(s, i + 2))
        \/ At(s, i) = NL /\ At(s, i + 1) = "*" /\ IsWS(At(s, i + 2))

\* /might be|probably|likely|seems like|appears to|I think|I believe/i
speculativeWords(ls) ==
    \E w \in {"might be", "probably", "likely", "seems like", "appears to",
              "i think", "i believe"} : Contains(ls, w)

\* answer.split(/\s+/).length: one more than the number of white-space runs
wordCount(s) ==
    1 + Cardinality({i \in 1..Len(s) : IsWS(At(s, i)) /\ ~IsWS(At(s, i - 1))})

\* Warnings with the reference warning not asking for supplied documents
WarningsIgnoringDocuments(ndocs, ncit, hasConf, isNotFound, speculative, words) ==
    (IF ncit = 0 /\ ~isNotFound THEN <<WarnCitation>> ELSE <<>>)
    \o (IF ~hasConf THEN <<WarnConfidence>> ELSE <<>>)
    \o (IF speculative /\ ~isNotFound THEN <<WarnSpeculative>> ELSE <<>>)
    \o (IF words < BriefAnswerWords /\ ~isNotFound THEN <<WarnBrief>> ELSE <<>>)
    \o (IF ncit = 0 /\ ~isNotFound THEN <<WarnReference>> ELSE <<>>)

\* the five conditional warnings.push calls, in source order
Warnings(ndocs, ncit, hasConf, isNotFound, speculative, words) ==
    (IF ncit = 0 /\ ~isNotFound THEN <<WarnCitation>> ELSE <<>>)
    \o (IF ~hasConf THEN <<WarnConfidence>> ELSE <<>>)
    \o (IF speculative /\ ~isNotFound THEN <<WarnSpeculative>> ELSE <<>>)
    \o (IF words < BriefAnswerWords /\ ~isNotFound THEN <<WarnBrief>> ELSE <<>>)
    \o (IF ndocs > 0 /\ ncit = 0 /\ ~isNotFound THEN <<WarnReference>> ELSE <<>>)

\* Score with the citation points granted unconditionally
ScoreCitationAlways(hasConf, hasCit, isNotFound, code, steps, speculative, words) ==
    (IF hasConf THEN ConfidenceWeight ELSE 0)
    + CitationWeight
    + (IF code THEN CodeWeight ELSE 0)
    + (IF steps THEN StepWeight ELSE 0)
    + (IF ~speculative THEN NoSpeculationWeight ELSE 0)
    + (IF words >= LongAnswerWords THEN LengthWeight ELSE 0)

\* the additive score
Score(hasConf, hasCit, isNotFound, code, steps, speculative, words) ==
    (IF hasConf THEN ConfidenceWeight ELSE 0)
    + (IF hasCit \/ isNotFound THEN CitationWeight ELSE 0)
    + (IF code THEN CodeWeight ELSE 0)
    + (IF steps THEN StepWeight ELSE 0)
    + (IF ~speculative THEN NoSpeculationWeight ELSE 0)
    + (IF words >= LongAnswerWords THEN LengthWeight ELSE 0)

\* isValid with a strict comparison
IsValidScoreStrict(score) == score > ValidScore

\* isValid: score >= 60
IsValidScore(score) == score >= ValidScore

validateAIResponse(ans, docs) ==
    LET ncit == citations(ans, 1)
        hasCitation == ncit > 0
        lowered == toLowerCase(ans)
        level == confidenceMatch(lowered)
        hasConfidence == level > 0
        isNotFound == notFoundPattern(lowered)
        code == hasCodeExamples(ans)
        steps == hasStepByStep(ans)
        speculative == speculativeWords(lowered)
        words == wordCount(ans)
        score == Score(hasConfidence, hasCitation, isNotFound, code, steps,
                       speculative, words)
    IN  [isValid |-> IsValidScore(score),
         hasCitation |-> hasCitation,
         hasConfidence |-> hasConfidence,
         confidence |-> IF hasConfidence THEN ConfidenceNames[level] ELSE "UNKNOWN",
         isNotFound |-> isNotFound,
         warnings |-> Warnings(Len(docs), ncit, hasConfidence, isNotFound,
                               speculative, words),
         score |-> score,
         qualityMetrics |-> [hasCodeExamples |-> code,
                             hasStepByStep |-> steps,
                             hasSpeculativeLanguage |-> speculative,
                             citationCount |-> ncit,
                             wordCount |-> words]]

(***************************************************************************)
(* The validator applied to bounded inputs                                 *)
(***************************************************************************)
MaxAnswerFragments == 3
MaxDocuments == 1

\* the texts answers are assembled from
AnswerFragments ==
    { "[Source: Guide](https://d/g) ",
      "[Source: Guide]\n(https://d/g) ",
      "Confidence: HIGH",
      "\nconfidence:\n low",
      "I couldn't find this information in the documentation. ",
      "1. Install it\n",
      "\n- Use ~npm i~ ",
      "This is probably right. ",
      "~~~js\nrun()\n~~~ ",
      "Unable to generate answer",
      "1. Run ~npm i~ [Source: Guide](https://d/g)\nConfidence: MEDIUM",
      Repeat("ok ", 24) }

RECURSIVE TextsOf(_, _)
TextsOf(fragments, n) ==
    IF n = 0 THEN {""}
    ELSE LET shorter == TextsOf(fragments, n - 1)
         IN  shorter \cup {t \o f : t \in shorter, f \in fragments}

SampleDocument ==
    [title |-> "Guide", url |-> "https://d/g", content |-> "Install it with npm i"]

DocumentLists == {[i \in 1..n |-> SampleDocument] : n \in 0..MaxDocuments}

InitValidate ==
    /\ answer \in TextsOf(AnswerFragments, MaxAnswerFragments)
    /\ documents \in DocumentLists
    /\ validation = NoResult
    /\ query = Undefined
    /\ reply = NoResult
    /\ analysis = NoResult
    /\ sources = NoResult
    /\ aggregated = NoResult
    /\ ServerIdle

Validate ==
    /\ validation = NoResult
    /\ validation' = validateAIResponse(answer, documents)
    /\ UNCHANGED <<answer, documents>>
    /\ UNCHANGED clsVars
    /\ UNCHANGED aggVars
    /\ UNCHANGED srvVars
    /\ UNCHANGED <<redisVars, gateVars, discVars>>

NextValidate == Validate

SpecValidate == InitValidate /\ [][NextValidate]_vars

(***************************************************************************)
(* Properties of the validator                                             *)
(***************************************************************************)
HasWarning(w) == \E i \in 1..Len(validation.warnings) : validation.warnings[i] = w

\* C1: for every answer and document list the score lies within 0..100 and
\* isValid is true exactly when the score is at least 60.
C1_ScoreRangeAndValidity ==
    validation # NoResult =>
        /\ validation.score \in 0..100
        /\ validation.isValid <=> (validation.score >= 60)

\* C1 witness: an answer scoring exactly 60 was validated and found valid.
C1_Witness ==
    /\ validation # NoResult
    /\ validation.score = 60
    /\ validation.isValid

\* C2 (as claimed): every answer with neither a confidence tag nor a citation
\* is flagged isValid = false, whatever its other features.
C2_Original ==
    (validation # NoResult /\ ~validation.hasConfidence /\ ~validation.hasCitation)
        => ~validation.isValid

\* C2 (amended): every answer with neither a confidence tag nor a citation
\* that is not a not-found response is flagged isValid = false.
C2_InvalidWithoutTagAndCitation ==
    (/\ validation # NoResult
     /\ ~validation.hasConfidence
     /\ ~validation.hasCitation
     /\ ~validation.isNotFound)
        => ~validation.isValid

\* C2 witness: an answer with code, steps, 50 words and no speculation, but
\* no tag, no citation and no not-found wording, was validated as invalid.
C2_Witness ==
    /\ validation # NoResult
    /\ ~validation.hasConfidence
    /\ ~validation.hasCitation
    /\ ~validation.isNotFound
    /\ validation.score = 50
    /\ ~validation.isValid

\* C3: the 'should reference provided documents' warning is returned exactly
\* when the document list is non-empty, the answer holds zero citation
\* matches and the answer is not a not-found response.
C3_ReferenceWarning ==
    validation # NoResult =>
        (HasWarning(WarnReference) <=>
            (/\ Len(documents) > 0
             /\ citations(answer, 1) = 0
             /\ ~notFoundPattern(toLowerCase(answer))))

\* C3 witness: documents were supplied, the answer cites nothing and is not a
\* not-found response, and the warning was returned.
C3_Witness ==
    /\ validation # NoResult
    /\ Len(documents) > 0
    /\ validation.qualityMetrics.citationCount = 0
    /\ ~validation.isNotFound
    /\ HasWarning(WarnReference)

(***************************************************************************)
(* Query classifier: analyzeQueryIntent (src/src/index.ts 110-175)         *)
(***************************************************************************)
Categories ==
    {"how-to", "what-is", "troubleshooting", "configuration", "api-reference", "general"}

\* /first\s+(w1|w2|...)/ tested anywhere in the lowered text
WordThenOneOf(ls, first, seconds) ==
    \E i \in 1..Len(ls) :
        /\ LitAt(ls, i, first)
        /\ IsWS(At(ls, i + Len(first)))
        /\ \E w \in seconds : LitAt(ls, SkipWS(ls, i + Len(first)), w)

\* /how\s+to|how\s+do|how\s+can/i
isHowTo(ls) == WordThenOneOf(ls, "how", {"to", "do", "can"})
\* /what\s+is|what\s+are|what\s+does/i
isWhatIs(ls) == WordThenOneOf(ls, "what", {"is", "are", "does"})
\* /error|issue|problem|fix|broken|not\s+working/i
isTroubleshooting(ls) ==
    \/ \E w \in {"error", "issue", "problem", "fix", "broken"} : Contains(ls, w)
    \/ WordThenOneOf(ls, "not", {"working"})
\* /config|setup|install|configure/i
isConfig(ls) == \E w \in {"config", "setup", "install", "configure"} : Contains(ls, w)

\* the if / else-if chain with the troubleshooting rule tried before what-is
FallbackTypeTroubleFirst(ls) ==
    IF isHowTo(ls) THEN "how-to"
    ELSE IF isTroubleshooting(ls) THEN "troubleshooting"
    ELSE IF isWhatIs(ls) THEN "what-is"
    ELSE IF isConfig(ls) THEN "configuration"
    ELSE "general"

\* the if / else-if chain with the configuration rule tried first
FallbackTypeConfigFirst(ls) ==
    IF isConfig(ls) THEN "configuration"
    ELSE IF isHowTo(ls) THEN "how-to"
    ELSE IF isWhatIs(ls) THEN "what-is"
    ELSE IF isTroubleshooting(ls) THEN "troubleshooting"
    ELSE "general"

\* the if / else-if chain of the catch block
FallbackType(ls) ==
    IF isHowTo(ls) THEN "how-to"
    ELSE IF isWhatIs(ls) THEN "what-is"
    ELSE IF isTroubleshooting(ls) THEN "troubleshooting"
    ELSE IF isConfig(ls) THEN "configuration"
    ELSE "general"

\* String.prototype.split(/\s+/)
RECURSIVE Split(_)
Split(s) ==
    LET ws == {i \in 1..Len(s) : IsWS(At(s, i))}
    IN  IF ws = {} THEN <<s>>
        ELSE LET i == Min(ws)
             IN  <<SubSeq(s, 1, i - 1)>> \o Split(SubSeq(s, SkipWS(s, i), Len(s)))

KeywordMinLength == 2
KeywordLimit == 5
LongEnough(w) == Len(w) > KeywordMinLength

\* slice(0, 5) left out
FallbackKeywordsUncapped(s) == SelectSeq(Split(toLowerCase(s)), LongEnough)

\* query.toLowerCase().split(/\s+/).filter(w => w.length > 2).slice(0, 5)
FallbackKeywords(s) ==
    LET kept == SelectSeq(Split(toLowerCase(s)), LongEnough)
    IN  SubSeq(kept, 1, IF Len(kept) < KeywordLimit THEN Len(kept) ELSE KeywordLimit)

\* what the model completion call came back with and what JSON.parse of
\* response.choices[0]?.message?.content || '{}' makes of it:
\*   threw        the call rejected
\*   malformed    the response has no choices array (reading choices[0] throws)
\*   unparseable  the content is not JSON (JSON.parse throws)
\*   parsed       the content (or '{}' for empty content) parsed to json
ReplyThrew(status) == [kind |-> "threw", status |-> status, json |-> Undefined, fields |-> <<>>]
ReplyMalformed == [kind |-> "malformed", status |-> 0, json |-> Undefined, fields |-> <<>>]
ReplyUnparseable == [kind |-> "unparseable", status |-> 0, json |-> Undefined, fields |-> <<>>]
\* a JSON value that is not an object literal with fields (null, scalar, array, {})
ReplyValue(v) == [kind |-> "parsed", status |-> 0, json |-> v, fields |-> <<>>]
\* a JSON object; fields = <<type, intent, reformulated, keywords, complexity>>
ReplyObject(f) == [kind |-> "parsed", status |-> 0, json |-> JSObject, fields |-> f]

\* analysis.<name>: undefined unless the parsed value is an object holding it
Field(r, n) == IF r.fields = <<>> THEN Undefined ELSE r.fields[n]

Returned(fallback, value) == [raised |-> FALSE, fallback |-> fallback, value |-> value]
Raised(fallback) == [raised |-> TRUE, fallback |-> fallback, value |-> NoResult]

\* the catch block (lines 153-174): the regular expressions coerce the query
\* to a string; query.toLowerCase() throws a TypeError unless it is a string
Fallback(q) ==
    IF q.t # "string" THEN Raised(TRUE)
    ELSE Returned(TRUE,
            [type |-> Str(FallbackType(toLowerCase(JSToString(q)))),
             intent |-> Str("User is asking about " \o q.s),
             reformulated |-> q,
             keywords |-> Arr(FallbackKeywords(q.s)),
             complexity |-> Str("beginner")])

\* the try block after the await (lines 142-152)
Primary(q, r) ==
    Returned(FALSE,
        [type |-> OrElse(Field(r, 1), Str("general")),
         intent |-> OrElse(Field(r, 2), Str("General information request")),
         reformulated |-> OrElse(Field(r, 3), q),
         keywords |-> IF Field(r, 4).t = "array" THEN Field(r, 4) ELSE Arr(<<>>),
         complexity |-> OrElse(Field(r, 5), Str("beginner"))])

\* the try block throws: the call rejected, the response is malformed, the
\* content does not parse, or it parses to null (reading null.type throws)
PrimaryThrows(r) == r.kind # "parsed" \/ r.json.t = "null"

analyzeQueryIntent(q, r) == IF PrimaryThrows(r) THEN Fallback(q) ELSE Primary(q, r)

(***************************************************************************)
(* The classifier applied to bounded inputs                                *)
(***************************************************************************)
MaxQueryFragments == 2

\* the texts queries are assembled from
QueryFragments ==
    { "How do I ",
      "configure X?",
      "What is ",
      "Y?",
      "the build is broken ",
      "docusaurus.config.js ",
      "fix this error ",
      "HOW\tTO ",
      "search is not working ",
      "please install docusaurus search plugin pages today ",
      "API keys " }

\* the query values that pass the endpoints' check (!query is false)
ClassifierQueries ==
    {Str(s) : s \in TextsOf(QueryFragments, MaxQueryFragments) \ {""}}
        \cup {Num(42), JSTrue, JSObject, Arr(<<"how to">>)}

BaseFields ==
    <<Str("how-to"), Str("User wants to learn"), Str("clearer query"),
      Arr(<<"term1", "term2", "term3">>), Str("advanced")>>

TypeValues ==
    {Str(c) : c \in Categories}
        \cup {Str("banana"), Str(""), Num(42), JSNull, Undefined, Arr(<<"how-to">>)}

\* what the classification call can come back with
Replies ==
    {ReplyThrew(0), ReplyThrew(429), ReplyMalformed, ReplyUnparseable,
     ReplyValue(JSNull), ReplyValue(Num(42)), ReplyValue(Str("how-to")),
     ReplyValue(Arr(<<>>)), ReplyValue(JSObject)}
        \cup {ReplyObject([BaseFields EXCEPT ![1] = v]) : v \in TypeValues}
        \cup {ReplyObject([BaseFields EXCEPT ![2] = Undefined]),
              ReplyObject([BaseFields EXCEPT ![3] = Undefined]),
              ReplyObject([BaseFields EXCEPT ![4] = Undefined]),
              ReplyObject([BaseFields EXCEPT ![4] = Str("term1, term2")]),
              ReplyObject([BaseFields EXCEPT ![5] = Undefined]),
              ReplyObject([BaseFields EXCEPT ![5] = Str("expert")])}

InitClassify ==
    /\ query \in ClassifierQueries
    /\ reply = NoResult
    /\ analysis = NoResult
    /\ answer = ""
    /\ documents = <<>>
    /\ validation = NoResult
    /\ sources = NoResult
    /\ aggregated = NoResult
    /\ ServerIdle

Classify ==
    /\ analysis = NoResult
    /\ \E r \in Replies :
        /\ reply' = r
        /\ analysis' = analyzeQueryIntent(query, r)
    /\ UNCHANGED query
    /\ UNCHANGED valVars
    /\ UNCHANGED aggVars
    /\ UNCHANGED srvVars
    /\ UNCHANGED <<redisVars, gateVars, discVars>>

NextClassify == Classify

SpecClassify == InitClassify /\ [][NextClassify]_vars

(***************************************************************************)
(* Properties of the classifier                                            *)
(***************************************************************************)
ReturnedAnalysis == analysis # NoResult /\ ~analysis.raised
FallbackAnalysis == ReturnedAnalysis /\ analysis.fallback

\* C4 (as claimed): the category of every returned QueryAnalysis is one of
\* the six enumerated values; other model output is replaced by 'general'.
C4_Original ==
    ReturnedAnalysis => analysis.value.type \in {Str(c) : c \in Categories}

\* C5 (as claimed): analyzeQueryIntent never raises to its caller, for every
\* query that passes the input check and every outcome of the model call.
C5_Original == analysis # NoResult => ~analysis.raised

\* C6 (as claimed): when the model call fails, the fallback classifies
\* "How do I configure X?" as 'configuration'.
C6_Original ==
    (FallbackAnalysis /\ query = Str("How do I configure X?"))
        => analysis.value.type = Str("configuration")

\* C6 (amended): when the model call fails, the fallback classifies
\* "How do I configure X?" as 'how-to' (the how-to rule is tried first).
C6_HowDoIConfigure ==
    (FallbackAnalysis /\ query = Str("How do I configure X?"))
        => analysis.value.type = Str("how-to")

\* C6 witness: the model call threw for "How do I configure X?" and the
\* fallback returned an analysis.
C6_Witness ==
    /\ FallbackAnalysis
    /\ reply.kind = "threw"
    /\ query = Str("How do I configure X?")

\* the first matching rule, in the order how-to, what-is, troubleshooting,
\* configuration, with the given word lists for the last two rules
FirstRule(ls, troubleWords, notWorking, configWords) ==
    IF WordThenOneOf(ls, "how", {"to", "do", "can"}) THEN "how-to"
    ELSE IF WordThenOneOf(ls, "what", {"is", "are", "does"}) THEN "what-is"
    ELSE IF \/ \E w \in troubleWords : Contains(ls, w)
            \/ notWorking /\ WordThenOneOf(ls, "not", {"working"})
         THEN "troubleshooting"
    ELSE IF \E w \in configWords : Contains(ls, w) THEN "configuration"
    ELSE "general"

\* at most 5 lowercase tokens, each longer than 2 characters
KeywordsWellFormed(k) ==
    /\ Len(k) <= 5
    /\ \A i \in 1..Len(k) :
        /\ Len(k[i]) > 2
        /\ k[i] = toLowerCase(k[i])
        /\ \A j \in 1..Len(k[i]) : ~IsWS(At(k[i], j))

\* C7 (as claimed): on the fallback path the category is that of the first
\* matching rule among how-to, what-is, troubleshooting (error/issue/problem/
\* fix), configuration (setup/configure/install), else general; "What is Y?"
\* yields what-is; the keywords are at most 5 lowercase tokens longer than 2.
C7_Original ==
    FallbackAnalysis =>
        /\ analysis.value.type =
              Str(FirstRule(toLowerCase(query.s), {"error", "issue", "problem", "fix"},
                            FALSE, {"setup", "configure", "install"}))
        /\ query = Str("What is Y?") => analysis.value.type = Str("what-is")
        /\ KeywordsWellFormed(analysis.value.keywords.a)

\* C7 (amended): as claimed, with the word lists the code uses: troubleshooting
\* (error/issue/problem/fix/broken/not working), configuration
\* (config/setup/install/configure).
C7_FallbackRules ==
    FallbackAnalysis =>
        /\ analysis.value.type =
              Str(FirstRule(toLowerCase(query.s),
                            {"error", "issue", "problem", "fix", "broken"}, TRUE,
                            {"config", "setup", "install", "configure"}))
        /\ query = Str("What is Y?") => analysis.value.type = Str("what-is")
        /\ KeywordsWellFormed(analysis.value.keywords.a)

\* C7 witness: the call failed for a query that matches the what-is rule and
\* later rules too; what-is was returned with the keyword list cut to 5.
C7_Witness ==
    /\ FallbackAnalysis
    /\ analysis.value.type = Str("what-is")
    /\ isTroubleshooting(toLowerCase(query.s)) \/ isConfig(toLowerCase(query.s))
    /\ Len(analysis.value.keywords.a) = 5
    /\ Len(FallbackKeywordsUncapped(query.s)) > 5

(***************************************************************************)
(* Session store and periodic sweep (src/src/index.ts 808-837, 938-999)    *)
(***************************************************************************)
NewSession(t) == [turns |-> <<>>, createdAt |-> t, lastActiveAt |-> t, context |-> ""]

\* session.lastActiveAt = new Date()
Touch(objs, id, t) == [objs EXCEPT ![id].lastActiveAt = t]

\* the cleanup test with <= in place of <
ExpiredInclusive(s, t) == s.lastActiveAt <= t - OneHour

\* session.lastActiveAt < oneHourAgo, oneHourAgo = Date.now() - 60 * 60 * 1000
Expired(s, t) == s.lastActiveAt < t - OneHour

\* Array.prototype.slice(-n) of an array longer than n
LastTurns(turns, n) == SubSeq(turns, Len(turns) - n + 1, Len(turns))

\* the push with slice(0, 10) in place of slice(-10)
PushTurnKeepOldest(turns, turn) ==
    LET pushed == Append(turns, turn)
    IN  IF Len(pushed) > MaxTurns THEN SubSeq(pushed, 1, MaxTurns) ELSE pushed

\* the push with unshift in place of push
PushTurnInFront(turns, turn) ==
    LET pushed == <<turn>> \o turns
    IN  IF Len(pushed) > MaxTurns THEN LastTurns(pushed, MaxTurns) ELSE pushed

\* session.turns.push(turn); if (session.turns.length > 10)
\*   session.turns = session.turns.slice(-10)
PushTurn(turns, turn) ==
    LET pushed == Append(turns, turn)
    IN  IF Len(pushed) > MaxTurns THEN LastTurns(pushed, MaxTurns) ELSE pushed

\* what the history endpoint returns of a stored turn
HistoryView(turn) ==
    [query |-> turn.query, answer |-> turn.answer, timestamp |-> turn.timestamp,
     queryAnalysis |-> turn.queryAnalysis, seq |-> turn.seq]

\* POST /api/session/create
CreateSession ==
    /\ sessionObjs' = Append(sessionObjs, NewSession(now))
    /\ conversationSessions' = conversationSessions \cup {Len(sessionObjs) + 1}
    /\ appended' = Append(appended, <<>>)
    /\ UNCHANGED <<clockVars, reqVars, history>>
    /\ UNCHANGED offVars

\* GET /api/session/:sessionId/history
GetHistory(id) ==
    /\ IF id \notin conversationSessions
       THEN /\ history' = [status |-> NotFound, sessionId |-> id, turns |-> <<>>, count |-> 0]
            /\ UNCHANGED sessionObjs
       ELSE /\ sessionObjs' = Touch(sessionObjs, id, now)
            /\ history' = [status |-> Ok, sessionId |-> id,
                           turns |-> [i \in 1..Len(sessionObjs[id].turns) |->
                                         HistoryView(sessionObjs[id].turns[i])],
                           count |-> Len(appended[id])]
    /\ UNCHANGED <<conversationSessions, appended, clockVars, reqVars>>
    /\ UNCHANGED offVars

\* the setInterval callback: every session whose lastActiveAt is older than
\* one hour is deleted from the Map
Sweep ==
    /\ now >= nextSweepAt
    /\ conversationSessions' =
          {id \in conversationSessions : ~Expired(sessionObjs[id], now)}
    /\ nextSweepAt' = nextSweepAt + CleanupInterval
    /\ lastSweepAt' = now
    /\ UNCHANGED <<now, sessionObjs, appended, reqVars, history>>
    /\ UNCHANGED offVars

\* time passes; a due cleanup callback runs before time passes further
Tick ==
    /\ now < nextSweepAt
    /\ now' = now + TickMs
    /\ UNCHANGED <<nextSweepAt, lastSweepAt, sessVars, reqVars, history>>
    /\ UNCHANGED offVars

(***************************************************************************)
(* generateFollowUpQuestions (src/src/index.ts 842-933)                    *)
(***************************************************************************)
FollowUpLimit == 3

\* the switch of the catch block
FallbackQuestions(type) ==
    CASE type = Str("how-to") ->
            <<"What are the best practices for this approach?",
              "Are there any common issues to avoid?",
              "How can I customize this further?">>
      [] type = Str("what-is") ->
            <<"How do I get started with this?",
              "What are the main use cases?",
              "Are there any alternatives?">>
      [] type = Str("troubleshooting") ->
            <<"How can I prevent this issue?",
              "Are there any related problems?",
              "What are the debugging steps?">>
      [] type = Str("configuration") ->
            <<"What are the advanced configuration options?",
              "How do I validate my configuration?",
              "Can I automate this setup?">>
      [] OTHER ->
            <<"What are the related topics?",
              "Are there any examples available?",
              "How does this integrate with other features?">>

\* r: what the follow-up model call came back with (as for the classifier);
\* Array.isArray(questions) ? questions.slice(0, 3) : [], the catch block
\* when the call or JSON.parse throws
generateFollowUpQuestions(type, r) ==
    IF r.kind # "parsed" THEN FallbackQuestions(type)
    ELSE IF r.json.t = "array"
         THEN SubSeq(r.json.a, 1,
                     IF Len(r.json.a) < FollowUpLimit THEN Len(r.json.a) ELSE FollowUpLimit)
         ELSE <<>>

(***************************************************************************)
(* POST /api/generate-answer (417-561) and                                 *)
(* POST /api/generate-answer-with-memory (1053-1195)                       *)
(***************************************************************************)
DefaultAnswer == "Unable to generate answer"

ErrorResponse(status, at) == [NoResponse EXCEPT !.status = status, !.at = at]

\* the outcome of the answer-generation call: rejected with an error that
\* carries a status (0: none), or resolved with a message content
AnswerFailed(status) == [ok |-> FALSE, status |-> status, content |-> ""]
AnswerContent(c) == [ok |-> TRUE, status |-> 0, content |-> c]

\* error.status || 500
StatusOf(status) == IF status # 0 THEN status ELSE InternalError

\* documents.map(doc => ... doc.title ...) throws on a null element
HasNullDocument(docs) == \E i \in 1..Len(docs.a) : docs.a[i].t \in {"null", "undefined"}

\* QUERY_SPECIFIC_PROMPTS[queryAnalysis.type] ? ... : ANSWER_GENERATION_PROMPT
TemplateFor(type) ==
    IF type.t = "string" /\ type.s \in Categories THEN type.s ELSE "answer-generation"

\* !query || !documents || !Array.isArray(documents)
InvalidBody(q, docs) == ~Truthy(q) \/ ~Truthy(docs) \/ docs.t # "array"

\* the handler from the arrival of the request to its first await (the
\* classification call): input check, session lookup
Receive(r, endpoint, q, docs, sid) ==
    /\ reqs[r].pc \in {"idle", "done"}
    /\ started' = started + 1
    /\ IF InvalidBody(q, docs)
       THEN /\ reqs' = [reqs EXCEPT ![r] =
                          [IdleRequest EXCEPT !.pc = "done", !.endpoint = endpoint,
                              !.query = q, !.documents = docs, !.sessionId = sid,
                              !.resp = ErrorResponse(BadRequest, "validation")]]
            /\ UNCHANGED sessionObjs
       ELSE LET found == endpoint = "memory" /\ sid # 0 /\ sid \in conversationSessions
            IN  /\ reqs' = [reqs EXCEPT ![r] =
                              [IdleRequest EXCEPT !.pc = "classify", !.endpoint = endpoint,
                                  !.query = q, !.documents = docs, !.sessionId = sid,
                                  !.session = IF found THEN sid ELSE 0,
                                  !.touched = found,
                                  !.calls = Issue(NoCalls, "classification")]]
                /\ sessionObjs' = IF found THEN Touch(sessionObjs, sid, now)
                                  ELSE sessionObjs
    /\ UNCHANGED <<conversationSessions, appended, clockVars, history, enhancerEnabled>>
    /\ UNCHANGED offVars

\* the classification call settles: analyzeQueryIntent finishes, the prompt
\* and the document context are built, the next call is issued
ClassificationSettles(r, rep) ==
    /\ reqs[r].pc = "classify"
    /\ LET res == analyzeQueryIntent(reqs[r].query, rep)
       IN  reqs' = [reqs EXCEPT ![r] =
              IF res.raised
              THEN [@ EXCEPT !.pc = "done",
                             !.resp = ErrorResponse(InternalError, "classification")]
              ELSE IF HasNullDocument(reqs[r].documents)
              THEN [@ EXCEPT !.pc = "done", !.type = res.value.type,
                             !.resp = ErrorResponse(InternalError, "context")]
              ELSE [@ EXCEPT !.pc = IF reqs[r].endpoint = "plain" /\ enhancerEnabled
                                    THEN "enhance" ELSE "answer",
                             !.type = res.value.type,
                             !.template = TemplateFor(res.value.type),
                             !.calls = Issue(@, IF reqs[r].endpoint = "plain" /\ enhancerEnabled
                                                THEN "enhancement" ELSE "answer")]]
    /\ UNCHANGED <<sessVars, clockVars, history, started, enhancerEnabled>>
    /\ UNCHANGED offVars

\* recursiveEnhancer.enhanceContext settles (generate-answer only): "threw"
\* is caught and the original documents are used; "same" and "more" return
\* as many documents or more
EnhancementSettles(r, outcome) ==
    /\ reqs[r].pc = "enhance"
    /\ reqs' = [reqs EXCEPT ![r].pc = "answer", ![r].enhanced = (outcome = "more"),
                            ![r].calls = Issue(@, "answer")]
    /\ UNCHANGED <<sessVars, clockVars, history, started, enhancerEnabled>>
    /\ UNCHANGED offVars

\* a handler that calls the provider a second time when the first call fails
AnswerFailureRetried(req, status) ==
    IF req.calls["answer"] < 2 THEN [req EXCEPT !.calls = Issue(@, "answer")]
    ELSE [req EXCEPT !.pc = "done", !.resp = ErrorResponse(StatusOf(status), "answer")]

\* the catch block of the answer endpoints after the answer call rejected
AnswerFailure(req, status) ==
    [req EXCEPT !.pc = "done", !.resp = ErrorResponse(StatusOf(status), "answer")]

\* the turn stored whenever the request holds a session, the answer call
\* failed or not
StoresRegardless(req, out) == req.endpoint = "memory" /\ req.session # 0

\* the turn is stored after the awaited answer call has resolved, if (session)
Stores(req, out) == out.ok /\ req.endpoint = "memory" /\ req.session # 0

\* the answer-generation call settles: on failure the catch block answers
\* with the provider's status; on success the answer is validated, the turn
\* is stored (with memory) and the response or the follow-up call is issued
AnswerSettles(r, out) ==
    /\ reqs[r].pc = "answer"
    /\ LET req == reqs[r]
           ans == IF out.content = "" THEN DefaultAnswer ELSE out.content
           val == validateAIResponse(ans, req.documents.a)
           s == req.session
           stores == Stores(req, out)
           turn == [query |-> req.query, answer |-> ans, timestamp |-> now,
                    queryAnalysis |-> req.type, score |-> val.score,
                    seq |-> Len(appended[s]) + 1]
       IN  /\ reqs' = [reqs EXCEPT ![r] =
                IF ~out.ok THEN AnswerFailure(@, out.status)
                ELSE IF req.endpoint = "plain"
                THEN \* the validation report logs query.substring(0, 100)
                     IF (~val.isValid \/ val.warnings # <<>>) /\ req.query.t # "string"
                     THEN [@ EXCEPT !.pc = "done",
                                    !.resp = ErrorResponse(InternalError, "logging")]
                     ELSE [@ EXCEPT !.pc = "done",
                                    !.resp = [NoResponse EXCEPT !.status = Ok,
                                                                !.score = val.score]]
                ELSE [@ EXCEPT !.pc = "followup",
                               !.resp = [NoResponse EXCEPT !.score = val.score],
                               !.calls = Issue(@, "followup")]]
           /\ sessionObjs' = IF stores
                             THEN [sessionObjs EXCEPT ![s].turns = PushTurn(@, turn)]
                             ELSE sessionObjs
           /\ appended' = IF stores THEN [appended EXCEPT ![s] = Append(@, turn)]
                          ELSE appended
    /\ UNCHANGED <<conversationSessions, clockVars, history, started, enhancerEnabled>>
    /\ UNCHANGED offVars

\* the follow-up call settles (generate-answer-with-memory only): the
\* response is sent with sessionId: session?.sessionId
FollowUpSettles(r, rep) ==
    /\ reqs[r].pc = "followup"
    /\ reqs' = [reqs EXCEPT ![r] =
          [@ EXCEPT !.pc = "done",
                    !.resp = [NoResponse EXCEPT
                                 !.status = Ok, !.sessionId = reqs[r].session,
                                 !.followUps = generateFollowUpQuestions(reqs[r].type, rep),
                                 !.score = reqs[r].resp.score]]]
    /\ UNCHANGED <<sessVars, clockVars, history, started, enhancerEnabled>>
    /\ UNCHANGED offVars

(***************************************************************************)
(* Multi-source aggregation: aggregateMultiSourceResults (706-801)         *)
(***************************************************************************)
\* weights of DEFAULT_CONFIG.multiSource.sources (src/src/config.ts 28-48) and
\* the bonus of a resolved item, in hundredths
DocumentationWeight == 50
GithubWeight == 30
BlogWeight == 15
ChangelogWeight == 5
ResolvedBonus == 10
PerSource == 10
PerResolved == 15
PerDocumentation == 20
MaxConfidence == 100
FallbackConfidence == 50
ExcerptLength == 200
DefaultAggregate == "Unable to aggregate results"

\* a document of the request body: an object with a title and, unless it
\* lacks the field, a content
Doc(title, content) == JSValue("object", title, 0, <<content>>)
DocContent(d) == IF d.a = <<>> THEN Undefined ELSE d.a[1]

Source(kind, title, content, weight, type) ==
    [source |-> kind, title |-> title, content |-> content, weight |-> weight, type |-> type]

\* documentationResults.map(doc => ({source: 'documentation', ...}))
FromDocument(d) ==
    Source("documentation", d.s, DocContent(d), DocumentationWeight, "documentation")

\* the comparator with the bonus given to every item
SortKeyBonusAlways(s) == s.weight + ResolvedBonus

\* a.metadata.weight + (a.metadata.type === 'resolved' ? 0.1 : 0)
SortKey(s) == s.weight + (IF s.type = "resolved" THEN ResolvedBonus ELSE 0)

\* Array.prototype.sort with (a, b) => bScore - aScore: descending by key,
\* items of equal key in their input order
RECURSIVE SortSources(_)
SortSources(all) ==
    IF all = <<>> THEN <<>>
    ELSE LET n == Len(all)
             x == all[n]
             sorted == SortSources(SubSeq(all, 1, n - 1))
             Before(e) == SortKey(e) >= SortKey(x)
             After(e) == SortKey(e) < SortKey(x)
         IN  SelectSeq(sorted, Before) \o <<x>> \o SelectSeq(sorted, After)

IsResolved(s) == s.type = "resolved"
IsDocumentation(s) == s.source = "documentation"

\* the score without the Math.min(100, ...)
ConfidenceUncapped(sorted, github) ==
    Len(sorted) * PerSource
        + Len(SelectSeq(github, IsResolved)) * PerResolved
        + Len(SelectSeq(sorted, IsDocumentation)) * PerDocumentation

\* Math.min(100, Math.round(n * 10 + resolved * 15 + documentation * 20))
ConfidenceScore(sorted, github) ==
    LET raw == Len(sorted) * PerSource
                 + Len(SelectSeq(github, IsResolved)) * PerResolved
                 + Len(SelectSeq(sorted, IsDocumentation)) * PerDocumentation
    IN  IF raw > MaxConfidence THEN MaxConfidence ELSE raw

\* s.content.substring(0, 200)
Excerpt(c) == SubSeq(c, 1, IF Len(c) < ExcerptLength THEN Len(c) ELSE ExcerptLength)

RECURSIVE Join(_, _)
Join(parts, sep) ==
    IF parts = <<>> THEN ""
    ELSE IF Len(parts) = 1 THEN parts[1]
    ELSE parts[1] \o sep \o Join(Tail(parts), sep)

\* `**${s.title}** (${s.source}): ${s.content.substring(0, 200)}...`
FallbackLine(s) == "**" \o s.title \o "** (" \o s.source \o "): " \o Excerpt(s.content.s) \o "..."

FallbackAnswer(sorted) ==
    "Based on multiple sources:" \o NL \o NL
        \o Join([i \in 1..Len(sorted) |-> FallbackLine(sorted[i])], NL \o NL)

\* s.content.substring throws unless the content is a string
FallbackThrows(sorted) == \E i \in 1..Len(sorted) : sorted[i].content.t # "string"

AggregateRaised == [raised |-> TRUE, fallback |-> FALSE, answer |-> "", sources |-> <<>>,
                    total |-> 0, confidence |-> -1]

\* docs: the documents array; github, blog, changelog: the results of the
\* searches; out: the outcome of the aggregation model call
aggregateMultiSourceResults(docs, github, blog, changelog, out) ==
    LET all == [i \in 1..Len(docs) |-> FromDocument(docs[i])]
                 \o github \o blog \o changelog
        sorted == SortSources(all)
    IN  IF out.ok
        THEN [raised |-> FALSE, fallback |-> FALSE,
              answer |-> IF out.content = "" THEN DefaultAggregate ELSE out.content,
              sources |-> sorted, total |-> Len(all),
              confidence |-> ConfidenceScore(sorted, github)]
        ELSE IF FallbackThrows(sorted) THEN AggregateRaised
        ELSE [raised |-> FALSE, fallback |-> TRUE, answer |-> FallbackAnswer(sorted),
              sources |-> sorted, total |-> Len(all), confidence |-> FallbackConfidence]

(***************************************************************************)
(* POST /api/keywords (354-414)                                            *)
(***************************************************************************)
DefaultMaxKeywords == 5

\* Array.prototype.slice(0, end): end through ToIntegerOrInfinity, a negative
\* end counted from the end of the array
SliceTo(seq, end) ==
    LET n == IF end.t = "number" THEN end.n ELSE 0
        stop == IF n < 0 THEN (IF Len(seq) + n < 0 THEN 0 ELSE Len(seq) + n)
                ELSE IF n > Len(seq) THEN Len(seq) ELSE n
    IN  SubSeq(seq, 1, stop)

\* query.toLowerCase().split(/\s+/).filter(word => word.length > 2)
\*     .slice(0, maxKeywords), then [query, ...fallbackKeywords].slice(0, maxKeywords)
KeywordFallback(q, mk) ==
    SliceTo(<<q>> \o SliceTo(FallbackKeywordsUncapped(q), mk), mk)

\* the handler up to the keyword model call
KeywordsReceive(r, q, mk) ==
    /\ reqs[r].pc \in {"idle", "done"}
    /\ started' = started + 1
    /\ reqs' = [reqs EXCEPT ![r] =
          IF ~Truthy(q)
          THEN [IdleRequest EXCEPT !.pc = "done", !.endpoint = "keywords", !.query = q,
                                   !.resp = ErrorResponse(BadRequest, "validation")]
          ELSE [IdleRequest EXCEPT !.pc = "keywords", !.endpoint = "keywords", !.query = q,
                                   !.maxKeywords = IF mk.t = "undefined"
                                                   THEN Num(DefaultMaxKeywords) ELSE mk,
                                   !.calls = Issue(NoCalls, "keywords")]]
    /\ UNCHANGED <<sessVars, clockVars, history, enhancerEnabled>>
    /\ UNCHANGED offVars

\* the keyword model call settles
KeywordsSettles(r, rep) ==
    /\ reqs[r].pc = "keywords"
    /\ LET req == reqs[r]
       IN  reqs' = [reqs EXCEPT ![r] =
              IF rep.kind = "threw"
              THEN [@ EXCEPT !.pc = "done",
                             !.resp = ErrorResponse(StatusOf(rep.status), "keywords")]
              ELSE IF rep.kind = "malformed"
              THEN [@ EXCEPT !.pc = "done",
                             !.resp = ErrorResponse(InternalError, "response")]
              ELSE IF rep.kind = "parsed" /\ rep.json.t = "array"
              THEN [@ EXCEPT !.pc = "done",
                             !.resp = [NoResponse EXCEPT
                                          !.status = Ok,
                                          !.keywords = SliceTo(rep.json.a, req.maxKeywords)]]
              ELSE IF req.query.t # "string"
              THEN [@ EXCEPT !.pc = "done",
                             !.resp = ErrorResponse(InternalError, "fallback")]
              ELSE [@ EXCEPT !.pc = "done",
                             !.resp = [NoResponse EXCEPT
                                          !.status = Ok, !.at = "fallback",
                                          !.keywords = KeywordFallback(req.query.s,
                                                                       req.maxKeywords)]]]
    /\ UNCHANGED <<sessVars, clockVars, history, started, enhancerEnabled>>
    /\ UNCHANGED offVars

(***************************************************************************)
(* POST /api/follow-up-questions (1004-1048)                               *)
(***************************************************************************)
\* queryAnalysis || { type: 'general', ... }, then .type
AnalysisType(qa) == IF qa.t = "undefined" THEN Str("general") ELSE qa

\* qa: the type of body.queryAnalysis, Undefined when the body has none. A
\* non-string answer makes answer.substring throw inside the try block of
\* generateFollowUpQuestions before the call is issued.
FollowUpReceive(r, q, ans, sid, qa) ==
    /\ reqs[r].pc \in {"idle", "done"}
    /\ started' = started + 1
    /\ IF ~Truthy(q) \/ ~Truthy(ans)
       THEN /\ reqs' = [reqs EXCEPT ![r] =
                          [IdleRequest EXCEPT !.pc = "done", !.endpoint = "followup",
                              !.query = q, !.answer = ans, !.sessionId = sid,
                              !.resp = ErrorResponse(BadRequest, "validation")]]
            /\ UNCHANGED sessionObjs
       ELSE LET found == sid # 0 /\ sid \in conversationSessions
                base == [IdleRequest EXCEPT !.endpoint = "followup", !.query = q,
                            !.answer = ans, !.sessionId = sid,
                            !.session = IF found THEN sid ELSE 0, !.touched = found,
                            !.type = AnalysisType(qa)]
            IN  /\ reqs' = [reqs EXCEPT ![r] =
                      IF ans.t = "string"
                      THEN [base EXCEPT !.pc = "followup-only",
                                        !.calls = Issue(NoCalls, "followup")]
                      ELSE [base EXCEPT !.pc = "done",
                               !.resp = [NoResponse EXCEPT
                                   !.status = Ok, !.sessionId = sid,
                                   !.followUps = FallbackQuestions(AnalysisType(qa))]]]
                /\ sessionObjs' = IF found THEN Touch(sessionObjs, sid, now)
                                  ELSE sessionObjs
    /\ UNCHANGED <<conversationSessions, appended, clockVars, history, enhancerEnabled>>
    /\ UNCHANGED offVars

\* the follow-up call settles; the response echoes body.sessionId
FollowUpEndpointSettles(r, rep) ==
    /\ reqs[r].pc = "followup-only"
    /\ reqs' = [reqs EXCEPT ![r] =
          [@ EXCEPT !.pc = "done",
                    !.resp = [NoResponse EXCEPT
                                 !.status = Ok, !.sessionId = reqs[r].sessionId,
                                 !.followUps = generateFollowUpQuestions(reqs[r].type, rep)]]]
    /\ UNCHANGED <<sessVars, clockVars, history, started, enhancerEnabled>>
    /\ UNCHANGED offVars

(***************************************************************************)
(* The source searches (592-692) and POST /api/multi-source-search         *)
(* (1200-1264)                                                             *)
(***************************************************************************)
\* what the fetch of the issue search came back with: a rejection
\* ("network"), a non-OK status ("status"), a payload whose mapping throws
\* ("malformed"), or a payload whose items have the given states
GithubFetch(kind, states) == [kind |-> kind, states |-> states]

\* repository, token: whether config.github.repository and GITHUB_TOKEN are set
searchGitHubIssues(repository, token, o) ==
    IF ~repository \/ ~token THEN <<>>
    ELSE IF o.kind # "items" THEN <<>>
    ELSE [i \in 1..Len(o.states) |->
             Source("github", "Issue", Str("body"), GithubWeight,
                    IF o.states[i] = "closed" THEN "resolved" ELSE "open")]

\* the placeholder: no search is made
searchBlogPosts(blogUrl) == <<>>

\* String.prototype.split(' ')
RECURSIVE SplitSpaces(_)
SplitSpaces(s) ==
    LET sp == {i \in 1..Len(s) : At(s, i) = " "}
    IN  IF sp = {} THEN <<s>>
        ELSE <<SubSeq(s, 1, Min(sp) - 1)>> \o SplitSpaces(SubSeq(s, Min(sp) + 1, Len(s)))

\* String.prototype.includes
Includes(s, k) == k = "" \/ Contains(s, k)

\* line.toLowerCase().includes(keyword) for some keyword of the query
Relevant(line, q) ==
    LET words == SplitSpaces(toLowerCase(q))
    IN  \E i \in 1..Len(words) : Includes(toLowerCase(line), words[i])

\* what the fetch of the changelog came back with: a rejection, or a
\* response with a status and the lines of its text
ChangelogFetch(kind, ok, lines) == [kind |-> kind, ok |-> ok, lines |-> lines]

\* url: whether config.changelog.url is set. The status of the response is
\* not looked at; query.toLowerCase() throws inside the try block for a
\* non-string query.
searchChangelog(q, url, o) ==
    IF ~url THEN <<>>
    ELSE IF o.kind = "network" \/ q.t # "string" THEN <<>>
    ELSE LET IsRelevant(line) == Relevant(line, q.s)
             lines == SelectSeq(o.lines, IsRelevant)
         IN  IF lines = <<>> THEN <<>>
             ELSE <<Source("changelog", "Changelog", Str(Join(lines, NL)),
                           ChangelogWeight, "changelog")>>

\* config of the request body and the environment: which of
\* config.github.repository, GITHUB_TOKEN, config.blog.url and
\* config.changelog.url are set
Config(repository, token, blogUrl, changelogUrl) ==
    [repository |-> repository, token |-> token, blogUrl |-> blogUrl,
     changelogUrl |-> changelogUrl]

\* the searches that issue a fetch
Fetching(cfg) ==
    (IF cfg.repository /\ cfg.token THEN {"github"} ELSE {})
        \cup (IF cfg.changelogUrl THEN {"changelog"} ELSE {})

\* Promise.all has resolved: aggregateMultiSourceResults maps the documents
\* (a TypeError unless they are an array of objects) and issues the
\* aggregation call
StartAggregation(req) ==
    IF req.documents.t # "array" \/ HasNullDocument(req.documents)
    THEN [req EXCEPT !.pc = "done", !.resp = ErrorResponse(InternalError, "context")]
    ELSE [req EXCEPT !.pc = "aggregate", !.calls = Issue(@, "aggregation")]

\* the handler up to Promise.all of the three searches
MultiReceive(r, q, docs, cfg) ==
    /\ reqs[r].pc \in {"idle", "done"}
    /\ started' = started + 1
    /\ reqs' = [reqs EXCEPT ![r] =
          IF ~Truthy(q)
          THEN [IdleRequest EXCEPT !.pc = "done", !.endpoint = "multi", !.query = q,
                                   !.documents = docs,
                                   !.resp = ErrorResponse(BadRequest, "validation")]
          ELSE LET base == [IdleRequest EXCEPT
                               !.pc = "search", !.endpoint = "multi", !.query = q,
                               !.documents = IF docs.t = "undefined" THEN Arr(<<>>) ELSE docs,
                               !.config = cfg, !.pending = Fetching(cfg),
                               !.calls = [k \in CallKinds |->
                                            IF k \in Fetching(cfg) THEN 1 ELSE 0]]
               IN  IF Fetching(cfg) = {} THEN StartAggregation(base) ELSE base]
    /\ UNCHANGED <<sessVars, clockVars, history, enhancerEnabled>>
    /\ UNCHANGED offVars

\* the issue search settling under Promise.race in place of Promise.all
GithubSettlesRacing(r, o) ==
    /\ reqs[r].pc = "search"
    /\ "github" \in reqs[r].pending
    /\ LET req == reqs[r]
           next == [req EXCEPT !.pending = @ \ {"github"},
                       !.found.github = searchGitHubIssues(req.config.repository,
                                                           req.config.token, o)]
       IN  reqs' = [reqs EXCEPT ![r] = StartAggregation(next)]
    /\ UNCHANGED <<sessVars, clockVars, history, started, enhancerEnabled>>
    /\ UNCHANGED offVars

\* the fetch of the issue search settles
GithubSettles(r, o) ==
    /\ reqs[r].pc = "search"
    /\ "github" \in reqs[r].pending
    /\ LET req == reqs[r]
           next == [req EXCEPT !.pending = @ \ {"github"},
                       !.found.github = searchGitHubIssues(req.config.repository,
                                                           req.config.token, o)]
       IN  reqs' = [reqs EXCEPT ![r] =
                       IF next.pending = {} THEN StartAggregation(next) ELSE next]
    /\ UNCHANGED <<sessVars, clockVars, history, started, enhancerEnabled>>
    /\ UNCHANGED offVars

\* the fetch of the changelog settles
ChangelogSettles(r, o) ==
    /\ reqs[r].pc = "search"
    /\ "changelog" \in reqs[r].pending
    /\ LET req == reqs[r]
           next == [req EXCEPT !.pending = @ \ {"changelog"},
                       !.found.changelog = searchChangelog(req.query,
                                                           req.config.changelogUrl, o)]
       IN  reqs' = [reqs EXCEPT ![r] =
                       IF next.pending = {} THEN StartAggregation(next) ELSE next]
    /\ UNCHANGED <<sessVars, clockVars, history, started, enhancerEnabled>>
    /\ UNCHANGED offVars

\* the aggregation call settles: the aggregate (or its fallback) is
\* validated and returned
AggregationSettles(r, out) ==
    /\ reqs[r].pc = "aggregate"
    /\ LET req == reqs[r]
           res == aggregateMultiSourceResults(req.documents.a, req.found.github,
                                              req.found.blog, req.found.changelog, out)
       IN  reqs' = [reqs EXCEPT ![r] =
              IF res.raised
              THEN [@ EXCEPT !.pc = "done",
                             !.resp = ErrorResponse(InternalError, "fallback")]
              ELSE [@ EXCEPT !.pc = "done",
                             !.resp = [NoResponse EXCEPT
                                 !.status = Ok,
                                 !.at = IF res.fallback THEN "fallback" ELSE "",
                                 !.sources = res.sources,
                                 !.confidence = res.confidence,
                                 !.score = validateAIResponse(res.answer,
                                                              req.documents.a).score]]]
    /\ UNCHANGED <<sessVars, clockVars, history, started, enhancerEnabled>>
    /\ UNCHANGED offVars

(***************************************************************************)
(* The server under bounded traffic                                        *)
(***************************************************************************)
\* the variables of the validator and of the classifier, which are locals of
\* the handlers here
NoCall ==
    /\ answer = ""
    /\ documents = <<>>
    /\ validation = NoResult
    /\ query = Undefined
    /\ reply = NoResult
    /\ analysis = NoResult
    /\ sources = NoResult
    /\ aggregated = NoResult

GoodAnswer == "1. Run ~npm i~ [Source: Guide](https://d/g)\nConfidence: MEDIUM"
GoodDocuments == Arr(<<JSObject>>)
ConfigureQuery == Str("How do I configure X?")

ClassifierOutcomes == {ReplyThrew(0), ReplyObject(BaseFields)}
AnswerOutcomes == {AnswerFailed(0), AnswerContent(GoodAnswer)}
FollowUpOutcomes == {ReplyThrew(0), ReplyValue(Arr(<<"a?", "b?", "c?", "d?">>))}

\* one session, requests with memory, reads of the history
MaxAppends == 12

InitSession == ServerIdle /\ NoCall

NextSession ==
    \/ sessionObjs = <<>> /\ CreateSession
    \/ \E r \in Slots :
          started < MaxAppends /\ Receive(r, "memory", ConfigureQuery, GoodDocuments, 1)
    \/ \E r \in Slots, rep \in ClassifierOutcomes : ClassificationSettles(r, rep)
    \/ \E r \in Slots, out \in AnswerOutcomes : AnswerSettles(r, out)
    \/ \E r \in Slots, rep \in FollowUpOutcomes : FollowUpSettles(r, rep)
    \/ GetHistory(1)

SpecSession == InitSession /\ [][NextSession]_vars

\* sessions, the clock and the periodic sweep
MaxSessions == 2
MaxTicks == 15

InitSweep == ServerIdle /\ NoCall

NextSweep ==
    \/ Len(sessionObjs) < MaxSessions /\ CreateSession
    \/ \E id \in 1..MaxSessions : GetHistory(id)
    \/ now < MaxTicks * TickMs /\ Tick
    \/ Sweep

SpecSweep == InitSweep /\ [][NextSweep]_vars

\* both answer endpoints, every call failing or succeeding
MaxRequests == 2

AnswerQueries == {ConfigureQuery, Num(42), Str(""), Undefined}
AnswerDocuments == {GoodDocuments, Arr(<<>>), Arr(<<JSNull>>), Str("docs"), Undefined}
EnhancerOutcomes == {"threw", "same", "more"}

InitAnswer ==
    /\ enhancerEnabled \in BOOLEAN
    /\ now = 0
    /\ nextSweepAt = CleanupInterval
    /\ lastSweepAt = -1
    /\ sessionObjs = <<>>
    /\ conversationSessions = {}
    /\ appended = <<>>
    /\ reqs = [r \in Slots |-> IdleRequest]
    /\ started = 0
    /\ history = NoHistory
    /\ RedisIdle
    /\ NoCall

NextAnswer ==
    \/ sessionObjs = <<>> /\ CreateSession
    \/ \E r \in {1}, e \in {"plain", "memory"}, q \in AnswerQueries,
          d \in AnswerDocuments, sid \in {0, 1} :
          started < MaxRequests /\ Receive(r, e, q, d, sid)
    \/ \E r \in {1}, rep \in ClassifierOutcomes \cup {ReplyObject([BaseFields EXCEPT ![1] = Str("banana")])} :
          ClassificationSettles(r, rep)
    \/ \E r \in {1}, outcome \in EnhancerOutcomes : EnhancementSettles(r, outcome)
    \/ \E r \in {1}, out \in AnswerOutcomes \cup {AnswerFailed(429), AnswerContent("")} :
          AnswerSettles(r, out)
    \/ \E r \in {1}, rep \in FollowUpOutcomes \cup {ReplyUnparseable, ReplyValue(JSObject)} :
          FollowUpSettles(r, rep)

SpecAnswer == InitAnswer /\ [][NextAnswer]_vars

(***************************************************************************)
(* Claims about the session store, the sweep and the error responses       *)
(***************************************************************************)
\* the last min(n, 10) of the first n turns appended to session id
LastAppended(id, n) ==
    LET k == IF n < 10 THEN n ELSE 10
    IN  [i \in 1..k |-> appended[id][n - k + i]]

\* C8: whatever turns have been appended to a session through
\* generate-answer-with-memory, the session holds at most 10 turns and they
\* are exactly the last min(n, 10) appended turns in append order; the history
\* endpoint returns those turns, so after 11 appends it returns the 10 most
\* recent, the oldest dropped.
C8_LastTenTurns ==
    /\ \A id \in 1..Len(sessionObjs) :
          /\ Len(sessionObjs[id].turns) <= 10
          /\ sessionObjs[id].turns = LastAppended(id, Len(appended[id]))
    /\ history.status = Ok =>
          history.turns =
              [i \in 1..Len(history.turns) |->
                  HistoryView(LastAppended(history.sessionId, history.count)[i])]
          /\ Len(history.turns) = Len(LastAppended(history.sessionId, history.count))

\* the history read after the 11th append: 10 turns, the 2nd to the 11th
C8_Witness ==
    /\ history.status = Ok
    /\ history.count = 11
    /\ Len(history.turns) = 10
    /\ history.turns[1].seq = 2
    /\ history.turns[10].seq = 11

\* a session is kept by a sweep at time t unless it was last active more than
\* one hour before t
KeptAt(id, t) == t - sessionObjs[id].lastActiveAt <= OneHour

\* C9: the sweep runs every 10 minutes; each run deletes every session whose
\* lastActiveAt is more than one hour before the sweep and no other session,
\* so no stored session was past the threshold at the latest sweep.
C9_SweepDeletesExactlyExpired ==
    /\ [][nextSweepAt' # nextSweepAt =>
            /\ now = nextSweepAt
            /\ nextSweepAt' = nextSweepAt + CleanupInterval
            /\ conversationSessions' = {id \in conversationSessions : KeptAt(id, now)}]_vars
    /\ [](\A id \in conversationSessions : lastSweepAt >= 0 => KeptAt(id, lastSweepAt))
    /\ [](now <= nextSweepAt)

\* a sweep has just deleted a session that the previous sweep had kept, and
\* has kept a session last active exactly one hour before
C9_Witness ==
    /\ lastSweepAt = now
    /\ \E id \in 1..Len(sessionObjs) :
          /\ id \notin conversationSessions
          /\ ~KeptAt(id, now)
          /\ KeptAt(id, now - CleanupInterval)
    /\ \E id \in conversationSessions : now - sessionObjs[id].lastActiveAt = OneHour

\* C10 (as claimed): in generate-answer and generate-answer-with-memory only
\* an input-validation failure or a failure of the answer-generation call
\* produces an error response; a failed classification, enrichment or
\* follow-up call still ends in a success response.
C10_Original ==
    \A r \in Slots :
        reqs[r].resp.status >= BadRequest => reqs[r].resp.at \in {"validation", "answer"}

(***************************************************************************)
(* The five POST endpoints under bounded traffic                           *)
(***************************************************************************)
EndpointQueries == {ConfigureQuery, Num(42), Str(""), Undefined}
EndpointDocuments == {GoodDocuments, Arr(<<Doc("Guide", Undefined)>>), Str("docs"), Undefined}
EndpointAnswers == {Str(GoodAnswer), Num(42), Undefined}
MaxKeywordValues == {Undefined, Num(2), Num(0), Num(-1)}
Configs == {Config(g, g, FALSE, c) : g, c \in BOOLEAN}
ModelFailures == {ReplyThrew(0), ReplyThrew(429)}
KeywordOutcomes ==
    ModelFailures \cup {ReplyMalformed, ReplyUnparseable, ReplyValue(JSObject),
                        ReplyValue(Arr(<<"configure", "x", "setup">>))}
GithubOutcomes ==
    {GithubFetch("network", <<>>), GithubFetch("status", <<"closed">>),
     GithubFetch("malformed", <<>>), GithubFetch("items", <<"closed", "open">>)}
ErrorPage == <<"404 page not found", "How to contact us">>
ChangelogOutcomes ==
    {ChangelogFetch("network", FALSE, <<>>), ChangelogFetch("text", FALSE, ErrorPage),
     ChangelogFetch("text", TRUE, <<"v2: configure plugins", "v1: first release">>),
     ChangelogFetch("text", TRUE, <<"v1">>)}
AggregationOutcomes == {AnswerFailed(0), AnswerFailed(429), AnswerContent(GoodAnswer)}

InitEndpoints == ServerIdle /\ NoCall

NextEndpoints ==
    \/ sessionObjs = <<>> /\ CreateSession
    \/ \E e \in {"plain", "memory"}, q \in EndpointQueries, d \in EndpointDocuments,
          sid \in {0, 1} :
          started < MaxRequests /\ Receive(1, e, q, d, sid)
    \/ \E q \in EndpointQueries, mk \in MaxKeywordValues :
          started < MaxRequests /\ KeywordsReceive(1, q, mk)
    \/ \E q \in EndpointQueries, a \in EndpointAnswers, sid \in {0, 1},
          qa \in {Undefined, Str("how-to")} :
          started < MaxRequests /\ FollowUpReceive(1, q, a, sid, qa)
    \/ \E q \in EndpointQueries, d \in EndpointDocuments, cfg \in Configs :
          started < MaxRequests /\ MultiReceive(1, q, d, cfg)
    \/ \E rep \in ModelFailures \cup {ReplyObject(BaseFields)} : ClassificationSettles(1, rep)
    \/ \E out \in AnswerOutcomes \cup {AnswerFailed(429)} : AnswerSettles(1, out)
    \/ \E rep \in FollowUpOutcomes : FollowUpSettles(1, rep)
    \/ \E rep \in KeywordOutcomes : KeywordsSettles(1, rep)
    \/ \E rep \in FollowUpOutcomes : FollowUpEndpointSettles(1, rep)
    \/ \E o \in GithubOutcomes : GithubSettles(1, o)
    \/ \E o \in ChangelogOutcomes : ChangelogSettles(1, o)
    \/ \E out \in AggregationOutcomes : AggregationSettles(1, out)

SpecEndpoints == InitEndpoints /\ [][NextEndpoints]_vars

\* a required field of the request is missing or is not of its type
WellFormedText(v) == v.t = "string" /\ v.s # ""
Malformed(req) ==
    \/ ~WellFormedText(req.query)
    \/ req.endpoint \in {"plain", "memory"} /\ req.documents.t # "array"
    \/ req.endpoint = "followup" /\ ~WellFormedText(req.answer)

\* C11 (as claimed): a request to one of the five endpoints with a missing or
\* malformed required field is answered 400, no model or search call is
\* issued for it and no session is read or changed by it.
C11_Original ==
    \A r \in Slots :
        reqs[r].endpoint # "" /\ Malformed(reqs[r]) =>
            /\ reqs[r].pc = "done"
            /\ reqs[r].resp.status = BadRequest
            /\ reqs[r].calls = NoCalls
            /\ ~reqs[r].touched

(***************************************************************************)
(* Redis-backed variant: POST /api/chat/completions through                *)
(* OpenAIService.createChatCompletion (src/unnamed/part_005 139-183,       *)
(* 268-329) and the Redis client (src/unnamed/part_007)                    *)
(***************************************************************************)
\* the options of new Redis(redisUrl, {...})
MaxRetriesPerRequest == 3
RetryStep == 50
RetryCeiling == 2000

\* retryStrategy: (times) => Math.min(times * 50, 2000)
retryStrategy(times) ==
    IF times * RetryStep < RetryCeiling THEN times * RetryStep ELSE RetryCeiling

\* the provider call of createChatCompletion is issued
CallProvider(c) == [c EXCEPT !.pc = "provider", !.sent.provider = @ + 1]

\* the catch block of createChatCompletion throws new Error(...), which has no
\* statusCode; the route answers error.statusCode || 500
ChatErrorStatus(status) == InternalError

\* this.cacheTTL = parseInt(process.env.CACHE_TTL || '3600'), in seconds
ChatCacheTTL == 3600
MaxTokensCeiling == 4096

\* validateChatRequest of the service: model and messages are present in
\* every body sent; request.max_tokens && (max_tokens < 1 || max_tokens > 4096)
validateChatRequest(request) ==
    ~(request.max_tokens # 0
        /\ (request.max_tokens < 1 \/ request.max_tokens > MaxTokensCeiling))

\* JSON.stringify(response) and JSON.parse(cachedResponse)
JSONStringify(response) == "{" \o response \o "}"
JSONParse(text) == SubSeq(text, 2, Len(text) - 1)

\* redisClient.get(key): the value of a key that has not expired, else null
RedisGet(key, t) ==
    IF redisStore[key].value # "" /\ t < redisStore[key].expiry
    THEN redisStore[key].value ELSE ""

\* the provider called without validateChatRequest
CallUnvalidated(c) == CallProvider(c)

\* the message of the Error thrown by the catch block of createChatCompletion
ChatErrorMessage(status, message) ==
    IF status = 429 THEN "OpenAI API rate limit exceeded. Please try again later."
    ELSE IF status = 401 THEN "Invalid OpenAI API key."
    ELSE IF status = 400 THEN "Invalid request: " \o message
    ELSE "OpenAI API error: " \o (IF message = "" THEN "Unknown error" ELSE message)

\* the events of a streaming response
DataEvent(data) == "data: " \o data \o "\n\n"
DoneEvent == DataEvent("[DONE]")
ErrorEvent(message) ==
    DataEvent(JSONStringify("error: " \o
                  (IF message = "" THEN "Stream error occurred" ELSE message)))

\* a catch block that falls through to the writes after the loop
StreamErrorThenDone(c, message) ==
    [c EXCEPT !.pc = "done", !.status = Ok, !.finished = "failed",
              !.written = @ \o <<ErrorEvent(message), DoneEvent>>, !.ended = @ + 1]

\* the catch block of the streaming branch: one error event, res.end()
StreamError(c, message) ==
    [c EXCEPT !.pc = "done", !.status = Ok, !.finished = "failed",
              !.written = Append(@, ErrorEvent(message)), !.ended = @ + 1]

\* after the cache was skipped or missed: validateChatRequest throws into the
\* catch block, else the provider is called
ValidateAndCall(c) ==
    IF validateChatRequest(c.body) THEN CallProvider(c)
    ELSE IF c.stream
    THEN StreamError(c, ChatErrorMessage(0, "max_tokens must be between 1 and 4096"))
    ELSE [c EXCEPT !.pc = "done", !.status = ChatErrorStatus(0)]

\* the route up to the first await of createChatCompletion: the cache read
\* when the cache is enabled, there is a client and the request does not
\* stream, else validation and the provider call
ChatReceive(valid, stream, b) ==
    /\ chat.pc \in {"idle", "done"}
    /\ chat' =
          IF ~valid
          THEN [IdleChat EXCEPT !.pc = "done", !.stream = stream, !.body = b,
                                !.status = BadRequest]
          ELSE IF cacheEnabled /\ ~stream /\ redisClient
          THEN [IdleChat EXCEPT !.pc = "cache-get", !.stream = stream, !.body = b,
                                !.sent.cacheGet = 1]
          ELSE ValidateAndCall([IdleChat EXCEPT !.stream = stream, !.body = b])
    /\ UNCHANGED <<redisClient, cacheEnabled, redisStore, gateVars, discVars>>
    /\ UNCHANGED pureVars
    /\ UNCHANGED srvVars

\* a command whose connection was lost is sent again after the reconnect
\* delay, up to maxRetriesPerRequest times; then it is rejected
Resend(c, command) ==
    [c EXCEPT !.sent[command] = @ + 1, !.delay = retryStrategy(c.sent[command])]

\* redisClient.get settles: a cached value is parsed and returned as the
\* response; null, an error or a rejected command reads as a miss, and the
\* request is validated and sent to the provider
RedisGetSettles(outcome) ==
    /\ chat.pc = "cache-get"
    /\ LET cachedResponse == RedisGet(generateCacheKey(chat.body), now)
       IN  chat' =
              IF outcome = "reply" /\ cachedResponse # ""
              THEN [chat EXCEPT !.pc = "done", !.status = Ok, !.from = "cache",
                                !.read = "value",
                                !.response = JSONParse(cachedResponse)]
              ELSE IF outcome = "lost" /\ chat.sent.cacheGet <= MaxRetriesPerRequest
              THEN Resend(chat, "cacheGet")
              ELSE ValidateAndCall([chat EXCEPT !.read = IF outcome = "reply" THEN "null"
                                                         ELSE "failed"])
    /\ UNCHANGED <<redisClient, cacheEnabled, redisStore, gateVars, discVars>>
    /\ UNCHANGED pureVars
    /\ UNCHANGED srvVars

\* client.chat.completions.create settles; status 0 of a failure: the error
\* carries no status. A streaming request has sent its headers and reports
\* the error as an event of the stream.
ProviderSettles(out) ==
    /\ chat.pc = "provider"
    /\ chat' =
          IF ~out.ok
          THEN IF chat.stream
               THEN StreamError([chat EXCEPT !.providerStatus = out.status],
                                ChatErrorMessage(out.status, ""))
               ELSE [chat EXCEPT !.pc = "done", !.providerStatus = out.status,
                                 !.status = ChatErrorStatus(out.status)]
          ELSE IF chat.stream
          THEN [chat EXCEPT !.pc = "streaming", !.from = "provider"]
          ELSE IF cacheEnabled /\ ~chat.stream /\ redisClient
          THEN [chat EXCEPT !.pc = "cache-set", !.sent.cacheSet = 1, !.delay = 0,
                            !.from = "provider", !.response = out.content]
          ELSE [chat EXCEPT !.pc = "done", !.status = Ok,
                            !.from = "provider", !.response = out.content]
    /\ UNCHANGED <<redisClient, cacheEnabled, redisStore, gateVars, discVars>>
    /\ UNCHANGED pureVars
    /\ UNCHANGED srvVars

\* redisClient.setex(key, ttlSeconds, value) settles: the key holds the
\* stringified response for ttlSeconds; errors are logged, the response is
\* returned
RedisSetSettles(outcome) ==
    /\ chat.pc = "cache-set"
    /\ chat' =
          IF outcome = "lost" /\ chat.sent.cacheSet <= MaxRetriesPerRequest
          THEN Resend(chat, "cacheSet")
          ELSE [chat EXCEPT !.pc = "done", !.status = Ok]
    /\ redisStore' =
          IF outcome = "ok"
          THEN [redisStore EXCEPT ![generateCacheKey(chat.body)] =
                   [value |-> JSONStringify(chat.response),
                    expiry |-> now + ChatCacheTTL * 1000]]
          ELSE redisStore
    /\ UNCHANGED <<redisClient, cacheEnabled, gateVars, discVars>>
    /\ UNCHANGED pureVars
    /\ UNCHANGED srvVars

\* chunks of one streamed completion
MaxChunks == 2
StreamChunks == <<"delta-1", "delta-2", "delta-3", "delta-4">>

\* for await (const chunk of stream): the stream yields its next chunk, which
\* is written as a data event
StreamChunk ==
    /\ chat.pc = "streaming"
    /\ chat.yielded < MaxChunks
    /\ chat' = [chat EXCEPT !.yielded = @ + 1,
                            !.written = Append(@, DataEvent(JSONStringify(
                                                      StreamChunks[chat.yielded + 1])))]
    /\ UNCHANGED <<redisClient, cacheEnabled, redisStore, gateVars, discVars>>
    /\ UNCHANGED pureVars
    /\ UNCHANGED srvVars

\* the stream is exhausted: data: [DONE] is written and the response ended
StreamFinishes ==
    /\ chat.pc = "streaming"
    /\ chat' = [chat EXCEPT !.pc = "done", !.status = Ok, !.finished = "complete",
                            !.written = Append(@, DoneEvent), !.ended = @ + 1]
    /\ UNCHANGED <<redisClient, cacheEnabled, redisStore, gateVars, discVars>>
    /\ UNCHANGED pureVars
    /\ UNCHANGED srvVars

\* the iteration of the stream throws: the catch block of the branch
StreamFails(message) ==
    /\ chat.pc = "streaming"
    /\ chat' = StreamError(chat, message)
    /\ UNCHANGED <<redisClient, cacheEnabled, redisStore, gateVars, discVars>>
    /\ UNCHANGED pureVars
    /\ UNCHANGED srvVars

ProviderOutcomes ==
    {AnswerContent(GoodAnswer), AnswerFailed(0), AnswerFailed(400), AnswerFailed(401),
     AnswerFailed(429), AnswerFailed(503)}

InitChat ==
    /\ chat = IdleChat
    /\ GateIdle
    /\ redisClient \in BOOLEAN
    /\ cacheEnabled \in BOOLEAN
    /\ redisStore = EmptyStore
    /\ now = 0
    /\ nextSweepAt = CleanupInterval
    /\ lastSweepAt = -1
    /\ sessionObjs = <<>>
    /\ conversationSessions = {}
    /\ appended = <<>>
    /\ reqs = [r \in Slots |-> IdleRequest]
    /\ started = 0
    /\ history = NoHistory
    /\ enhancerEnabled = FALSE
    /\ NoCall

\* the route serving requests with the given bodies
ChatStep(bodies) ==
    \/ \E valid, stream \in BOOLEAN, b \in bodies : ChatReceive(valid, stream, b)
    \/ \E outcome \in {"reply", "error", "lost"} : RedisGetSettles(outcome)
    \/ \E out \in ProviderOutcomes : ProviderSettles(out)
    \/ \E outcome \in {"ok", "error", "lost"} : RedisSetSettles(outcome)
    \/ StreamChunk
    \/ StreamFinishes
    \/ \E message \in {"", "aborted"} : StreamFails(message)

NextChat == ChatStep(ChatBodies)

SpecChat == InitChat /\ [][NextChat]_vars

\* C12 (as claimed): when the provider call of an endpoint fails, the error
\* response carries the provider's status code if the error has one and 500
\* otherwise, also in the Redis-backed chat route.
C12_Original ==
    chat.pc = "done" /\ chat.sent.provider > 0 /\ chat.status >= BadRequest =>
        chat.status = (IF chat.providerStatus # 0 THEN chat.providerStatus
                       ELSE InternalError)

(***************************************************************************)
(* Calls per request: the handlers of index.ts next to the Redis-backed    *)
(* chat route                                                              *)
(***************************************************************************)
MaxRetryRequests == 1

NextRetry ==
    \/ ChatStep({ChatBody("a", 1000)})
    \/ sessionObjs = <<>> /\ CreateSession /\ UNCHANGED <<redisVars, gateVars, discVars>>
    \/ \E e \in {"plain", "memory"}, sid \in {0, 1} :
          started < MaxRetryRequests /\ Receive(1, e, ConfigureQuery, GoodDocuments, sid)
    \/ started < MaxRetryRequests /\ KeywordsReceive(1, ConfigureQuery, Undefined)
    \/ \E cfg \in Configs :
          started < MaxRetryRequests /\ MultiReceive(1, ConfigureQuery, GoodDocuments, cfg)
    \/ \E rep \in ClassifierOutcomes : ClassificationSettles(1, rep)
    \/ \E out \in AnswerOutcomes \cup {AnswerFailed(429)} : AnswerSettles(1, out)
    \/ \E rep \in FollowUpOutcomes : FollowUpSettles(1, rep)
    \/ \E rep \in KeywordOutcomes : KeywordsSettles(1, rep)
    \/ GithubSettles(1, GithubFetch("network", <<>>))
    \/ ChangelogSettles(1, ChangelogFetch("network", FALSE, <<>>))
    \/ \E out \in AggregationOutcomes : AggregationSettles(1, out)

SpecRetry == InitChat /\ [][NextRetry]_vars

MaxPerSource == 2

\* the sequences of at most n elements of pool
RECURSIVE ListsOf(_, _)
ListsOf(pool, n) ==
    IF n = 0 THEN {<<>>}
    ELSE LET shorter == ListsOf(pool, n - 1)
         IN  shorter \cup {Append(l, x) : l \in shorter, x \in pool}

DocumentPool == {Doc("Guide", Str("Install it with npm i")), Doc("Notes", Undefined)}
GithubPool ==
    {Source("github", "Issue 1", Str("crash on start"), GithubWeight, "resolved"),
     Source("github", "Issue 2", Str("feature request"), GithubWeight, "open")}
\* a blog item of the configured weight and one of weight 0.35
BlogPool ==
    {Source("blog", "Post", Str("release notes"), BlogWeight, "blog"),
     Source("blog", "Pinned post", Str("announcement"), 35, "blog")}
ChangelogPool == {Source("changelog", "Changelog", Str("v2: fixes"), ChangelogWeight, "changelog")}

InitAggregate ==
    /\ sources \in
          [docs : ListsOf(DocumentPool, MaxPerSource),
           github : ListsOf(GithubPool, MaxPerSource),
           blog : ListsOf(BlogPool, 1),
           changelog : ListsOf(ChangelogPool, 1),
           out : {AnswerContent(GoodAnswer), AnswerContent(""), AnswerFailed(0)}]
    /\ aggregated = NoResult
    /\ answer = ""
    /\ documents = <<>>
    /\ validation = NoResult
    /\ query = Undefined
    /\ reply = NoResult
    /\ analysis = NoResult
    /\ ServerIdle

Aggregate ==
    /\ aggregated = NoResult
    /\ aggregated' = aggregateMultiSourceResults(sources.docs, sources.github, sources.blog,
                                                 sources.changelog, sources.out)
    /\ UNCHANGED <<sources, valVars, clsVars, srvVars, redisVars, gateVars, discVars>>

NextAggregate == Aggregate

SpecAggregate == InitAggregate /\ [][NextAggregate]_vars

(***************************************************************************)
(* Properties of the aggregator                                            *)
(***************************************************************************)
Aggregated == aggregated # NoResult /\ ~aggregated.raised

\* the list handed to the sort: documentation, then github, blog, changelog
AllSources ==
    [i \in 1..Len(sources.docs) |-> FromDocument(sources.docs[i])]
        \o sources.github \o sources.blog \o sources.changelog

\* the key of the claim: weight, plus 0.1 for a resolved item (in hundredths)
ClaimedKey(s) == s.weight + (IF s.type = "resolved" THEN 10 ELSE 0)

\* the items of all by descending key, those of one key in their order in all
RECURSIVE ByDescendingKey(_, _)
ByDescendingKey(all, keys) ==
    IF keys = {} THEN <<>>
    ELSE LET k == CHOOSE x \in keys : \A y \in keys : y <= x
             HasKey(s) == ClaimedKey(s) = k
         IN  SelectSeq(all, HasKey) \o ByDescendingKey(all, keys \ {k})

\* C14: the sources returned are the input items sorted by descending key
\* (weight, plus 0.1 for a resolved item), items of equal key in input order
\* (documentation, github, blog, changelog); a resolved item of weight 0.3
\* stands before an unresolved item of weight 0.35.
C14_SortedByKey ==
    Aggregated =>
        /\ aggregated.sources =
              ByDescendingKey(AllSources,
                              {ClaimedKey(AllSources[i]) : i \in 1..Len(AllSources)})
        /\ \A i, j \in 1..Len(aggregated.sources) :
              /\ aggregated.sources[i].type = "resolved"
              /\ aggregated.sources[i].weight = 30
              /\ aggregated.sources[j].type # "resolved"
              /\ aggregated.sources[j].weight = 35
              => i < j

\* two documents of equal key in input order, then a resolved issue of weight
\* 0.3 before the blog item of weight 0.35 and before an open issue
C14_Witness ==
    /\ Aggregated
    /\ Len(aggregated.sources) = 5
    /\ aggregated.sources[1].title = "Notes"
    /\ aggregated.sources[2].title = "Guide"
    /\ aggregated.sources[3].type = "resolved"
    /\ aggregated.sources[4].weight = 35
    /\ aggregated.sources[5].type = "open"

\* the number of items of seq that satisfy Test
Count(seq, Test(_)) == Cardinality({i \in 1..Len(seq) : Test(seq[i])})

ResolvedGithub(s) == s.type = "resolved"
OfDocumentation(s) == s.source = "documentation"

\* C15: when the aggregation call succeeds, confidenceScore is
\* min(100, 10 * sources + 15 * resolved github items + 20 * documentation
\* items), an integer between 0 and 100.
C15_ConfidenceFormula ==
    (Aggregated /\ ~aggregated.fallback) =>
        LET sum == 10 * Len(AllSources) + 15 * Count(sources.github, ResolvedGithub)
                      + 20 * Count(AllSources, OfDocumentation)
        IN  /\ aggregated.confidence = (IF sum < 100 THEN sum ELSE 100)
            /\ aggregated.confidence \in 0..100

\* two documents and two resolved issues sum to 110, reported as 100
C15_Witness ==
    /\ Aggregated
    /\ ~aggregated.fallback
    /\ Len(sources.docs) = 2
    /\ Len(sources.github) = 2
    /\ \A i \in 1..2 : sources.github[i].type = "resolved"
    /\ sources.blog = <<>>
    /\ sources.changelog = <<>>
    /\ aggregated.confidence = 100

\* C16: when the aggregation call throws, the function returns the fallback
\* result (never throws): an answer listing title, source type and excerpt of
\* every source, with confidenceScore 50, also for documents without content.
C16_Original ==
    (aggregated # NoResult /\ ~sources.out.ok) =>
        /\ ~aggregated.raised
        /\ aggregated.fallback
        /\ aggregated.confidence = 50

(***************************************************************************)
(* Properties of the source searches                                       *)
(***************************************************************************)
\* the fetch of a source search failed: rejected, answered with a non-OK
\* status, or answered with a payload that cannot be read
GithubFailed(o) == o.kind \in {"network", "status", "malformed"}
ChangelogFailed(o) == o.kind = "network" \/ ~o.ok

\* C17 (as claimed): in the multi-source search a failed source search
\* (rejected fetch, non-OK status, unreadable payload) contributes the empty
\* list, leaves the lists of the other sources alone, and the request goes on
\* to the aggregation instead of failing.
C17_Original ==
    [][\A r \in Slots :
          /\ \A o \in GithubOutcomes :
                GithubFailed(o) /\ GithubSettles(r, o) =>
                    /\ reqs'[r].found.github = <<>>
                    /\ reqs'[r].found.changelog = reqs[r].found.changelog
                    /\ reqs'[r].resp.at \in {"", "context"}
          /\ \A o \in ChangelogOutcomes :
                ChangelogFailed(o) /\ ChangelogSettles(r, o) =>
                    /\ reqs'[r].found.changelog = <<>>
                    /\ reqs'[r].found.github = reqs[r].found.github
                    /\ reqs'[r].resp.at \in {"", "context"}]_vars

(***************************************************************************)
(* Properties of the keywords endpoint                                     *)
(***************************************************************************)
\* the first n items of seq
FirstItems(seq, n) == [i \in 1..(IF n < Len(seq) THEN n ELSE Len(seq)) |-> seq[i]]

\* C18 (as claimed): when the content of the keyword call is not a JSON
\* array the endpoint returns the original query followed by the lower-cased
\* whitespace-separated words of more than two characters, truncated to
\* maxKeywords; every success response holds at most maxKeywords entries.
C18_Original ==
    \A r \in Slots :
        LET req == reqs[r]
        IN  (req.endpoint = "keywords" /\ req.pc = "done") =>
               /\ req.resp.at = "fallback" =>
                     /\ req.resp.status = Ok
                     /\ req.resp.keywords =
                           FirstItems(<<req.query.s>>
                                         \o SelectSeq(Split(toLowerCase(req.query.s)),
                                                      LongEnough),
                                      req.maxKeywords.n)
               /\ req.resp.status = Ok => Len(req.resp.keywords) <= req.maxKeywords.n

(***************************************************************************)
(* The rate limiter mounted on /api/ (src/src/middleware/rateLimiting.ts   *)
(* 52-88, src/src/index.ts 65-73) and the one of the Redis-backed variant  *)
(* with its store (src/unnamed/part_005 11-94, src/unnamed/part_007 73-90) *)
(***************************************************************************)
\* parseInt(process.env.RATE_LIMIT || '30'): the configured maximum
RateLimitMax == 3

\* requests one client makes within a window
MaxMade == 2 * RateLimitMax + 1

\* max of the limiter built: finalConfig.max * 2 on Vercel
EffectiveMax(l) == IF l.vercel THEN RateLimitMax * 2 ELSE RateLimitMax

\* incrementRateLimit(key, windowSeconds): the count after MULTI INCR/EXPIRE,
\* 0 without a client or when the command fails
incrementRateLimit(l, client, outcome) ==
    IF ~client THEN 0
    ELSE IF outcome = "ok" THEN l.redisHits + 1
    ELSE 0

\* totalHits of store.increment(key): the memory store of the library, or
\* RedisStore.increment
increment(l, client, outcome) ==
    IF l.store = "memory" THEN l.hits + 1
    ELSE IF ~client THEN 1
    ELSE incrementRateLimit(l, client, outcome)

\* a request under /api/ of the client arrives: the hit is counted and the
\* request is handed on, or answered 429 by the handler once totalHits
\* exceeds max
LimiterRequest(outcome) ==
    /\ limiter.made < MaxMade
    /\ limiter.inflight < MaxMade
    /\ LET totalHits == increment(limiter, redisClient, outcome)
           counted == limiter.store = "redis" /\ redisClient /\ outcome = "ok"
       IN  limiter' = [limiter EXCEPT
              !.made = @ + 1,
              !.hits = IF limiter.store = "memory" THEN @ + 1 ELSE @,
              !.redisHits = IF counted THEN @ + 1 ELSE @,
              !.inflight = IF totalHits > EffectiveMax(limiter) THEN @ ELSE @ + 1,
              !.last = IF totalHits > EffectiveMax(limiter) THEN "limited" ELSE "passed"]
    /\ UNCHANGED <<pureVars, srvVars, redisVars, captcha, discVars>>

\* the response of a request that was handed on finishes: with
\* skipSuccessfulRequests a response below 400 takes its hit back
\* (RedisStore.decrement does nothing)
ResponseFinishes(success) ==
    /\ limiter.inflight > 0
    /\ limiter' = [limiter EXCEPT
          !.inflight = @ - 1,
          !.hits = IF limiter.vercel /\ success /\ limiter.store = "memory" /\ @ > 0
                   THEN @ - 1 ELSE @]
    /\ UNCHANGED <<pureVars, srvVars, redisVars, captcha, discVars>>

\* windowMs pass: the memory store is reset, the key in Redis expires
WindowElapses ==
    /\ limiter.made > 0
    /\ limiter' = [limiter EXCEPT !.made = 0, !.hits = 0, !.redisHits = 0]
    /\ UNCHANGED <<pureVars, srvVars, redisVars, captcha, discVars>>

\* the limiter as createRateLimiter builds it: on Vercel or not for
\* index.ts; with new RedisStore(windowMs) when a client exists for the
\* Redis-backed variant
InitLimiter ==
    /\ redisClient \in BOOLEAN
    /\ limiter \in
          {[IdleLimiter EXCEPT !.vercel = v] : v \in (IF redisClient THEN {FALSE} ELSE BOOLEAN)}
            \cup {[IdleLimiter EXCEPT !.variant = "redis",
                                     !.store = IF redisClient THEN "redis" ELSE "memory"]}
    /\ captcha = IdleCaptcha
    /\ DiscourseIdle
    /\ chat = IdleChat
    /\ cacheEnabled = FALSE
    /\ redisStore = EmptyStore
    /\ now = 0
    /\ nextSweepAt = CleanupInterval
    /\ lastSweepAt = -1
    /\ sessionObjs = <<>>
    /\ conversationSessions = {}
    /\ appended = <<>>
    /\ reqs = [r \in Slots |-> IdleRequest]
    /\ started = 0
    /\ history = NoHistory
    /\ enhancerEnabled = FALSE
    /\ NoCall

NextLimiter ==
    \/ \E outcome \in {"ok", "error"} : LimiterRequest(outcome)
    \/ \E success \in BOOLEAN : ResponseFinishes(success)
    \/ WindowElapses

SpecLimiter == InitLimiter /\ [][NextLimiter]_vars

\* C19 (as claimed): once the client has made the configured maximum of
\* /api/ requests in a window, every further request in that window is
\* answered 429 and reaches no handler, with the memory store and with the
\* Redis store, also when Redis is unavailable or fails.
C19_Original == limiter.made > RateLimitMax => limiter.last = "limited"

(***************************************************************************)
(* The reCAPTCHA middleware (src/src/middleware/recaptcha.ts 60-136)       *)
(* mounted on /api/keywords and /api/generate-answer (index.ts 80-89)      *)
(***************************************************************************)
\* parseFloat(process.env.RECAPTCHA_SCORE_THRESHOLD || '0.5'), in tenths
ScoreThreshold == 5

\* enabledActions: ['keywords', 'generate_answer']
EnabledActions == {"keywords", "generate_answer"}

\* what verifyRecaptchaToken came back with: a rejection ("error": the
\* request failed or the body is not JSON) or the parsed body ("json") with
\* its success, score (tenths, -1: no score in the body) and action ("":
\* no action in the body)
Verdict(kind, success, score, action) ==
    [kind |-> kind, success |-> success, score |-> score, action |-> action]

\* the status the middleware answers after the verification (0: next())
VerdictStatus(v) ==
    IF v.kind = "error" THEN InternalError
    ELSE IF ~v.success THEN 403
    ELSE IF v.score # -1 /\ v.score < ScoreThreshold THEN 403
    ELSE IF v.action # "" /\ v.action \notin EnabledActions THEN 403
    ELSE 0

\* a request to one of the two endpoints enters the middleware. Mounted
\* with app.use(path, captcha), req.path is "/" and matches no skip path.
CaptchaReceive(e, token) ==
    /\ started < MaxRequests
    /\ \/ captcha.pc \in {"idle", "rejected"}
       \/ captcha.pc = "passed" /\ captcha.serial # started
    /\ captcha' =
          IF ~captcha.secret
          THEN [captcha EXCEPT !.pc = "passed", !.endpoint = e, !.status = 0,
                               !.verdict = NoVerdict, !.serial = started]
          ELSE IF ~token
          THEN [captcha EXCEPT !.pc = "rejected", !.endpoint = e, !.status = BadRequest,
                               !.verdict = NoVerdict]
          ELSE [captcha EXCEPT !.pc = "verify", !.endpoint = e, !.status = 0,
                               !.verdict = NoVerdict]
    /\ UNCHANGED <<pureVars, srvVars, redisVars, limiter, discVars>>

\* verifyRecaptchaToken settles
VerifySettles(v) ==
    /\ captcha.pc = "verify"
    /\ captcha' =
          IF VerdictStatus(v) = 0
          THEN [captcha EXCEPT !.pc = "passed", !.verdict = v, !.serial = started]
          ELSE [captcha EXCEPT !.pc = "rejected", !.verdict = v,
                               !.status = VerdictStatus(v)]
    /\ UNCHANGED <<pureVars, srvVars, redisVars, limiter, discVars>>

\* next() of the middleware has been called for endpoint e and its handler
\* has not run yet
Admitted(e) ==
    /\ captcha.pc = "passed"
    /\ captcha.serial = started
    /\ captcha.endpoint = e

Verdicts ==
    {Verdict("error", FALSE, -1, ""), Verdict("json", FALSE, -1, "")}
        \cup {Verdict("json", TRUE, s, a) : s \in {-1, 1, 5, 9},
                                            a \in {"", "keywords", "login"}}

InitCaptcha ==
    /\ captcha \in {[IdleCaptcha EXCEPT !.secret = s] : s \in BOOLEAN}
    /\ limiter = IdleLimiter
    /\ DiscourseIdle
    /\ chat = IdleChat
    /\ redisClient = FALSE
    /\ cacheEnabled = FALSE
    /\ redisStore = EmptyStore
    /\ now = 0
    /\ nextSweepAt = CleanupInterval
    /\ lastSweepAt = -1
    /\ sessionObjs = <<>>
    /\ conversationSessions = {}
    /\ appended = <<>>
    /\ reqs = [r \in Slots |-> IdleRequest]
    /\ started = 0
    /\ history = NoHistory
    /\ enhancerEnabled = FALSE
    /\ NoCall

NextCaptcha ==
    \/ \E e \in {"keywords", "plain"}, token \in BOOLEAN : CaptchaReceive(e, token)
    \/ \E v \in Verdicts : VerifySettles(v)
    \/ \E q \in {ConfigureQuery, Undefined} :
          Admitted("keywords") /\ KeywordsReceive(1, q, Undefined)
    \/ \E q \in {ConfigureQuery, Undefined} :
          Admitted("plain") /\ Receive(1, "plain", q, GoodDocuments, 0)
    \/ \E rep \in KeywordOutcomes : KeywordsSettles(1, rep)
    \/ \E rep \in ModelFailures \cup {ReplyObject(BaseFields)} : ClassificationSettles(1, rep)
    \/ \E out \in AnswerOutcomes : AnswerSettles(1, out)

SpecCaptcha == InitCaptcha /\ [][NextCaptcha]_vars

\* C20 (as claimed): with a secret key configured, a request to
\* /api/keywords or /api/generate-answer reaches its handler, and causes a
\* model call, only after its token was verified with a score at or above
\* the threshold; a failed score check is answered 401 or 403 and no model
\* call is made for it.
C20_Original ==
    /\ (captcha.secret /\ captcha.pc = "passed") =>
          /\ captcha.verdict.kind = "json"
          /\ captcha.verdict.success
          /\ captcha.verdict.score >= ScoreThreshold
    /\ (captcha.secret /\ reqs[1].endpoint # "") => captcha.serial >= 0
    /\ (captcha.pc = "rejected" /\ captcha.verdict.kind = "json"
          /\ (~captcha.verdict.success \/ captcha.verdict.score < ScoreThreshold)) =>
          captcha.status \in {401, 403}

(***************************************************************************)
(* DiscourseResponseCache                                                  *)
(* (src/src/middleware/discourseSecurityMiddleware.ts 70-111)              *)
(***************************************************************************)
\* parseInt(process.env.DISCOURSE_CACHE_TTL || '3600') * 1000
CacheTTL == 3600 * 1000

\* the clock advances by half an hour at a time
CacheTickMs == 30 * 60 * 1000
MaxCacheTicks == 3
\* get and set calls made on the cache
MaxCacheOps == 4

CacheResponses == {"answer one", "answer two"}

CacheOps(c) == c.stats.hits + c.stats.misses + c.stats.sets

\* the test of get with the entry already dropped at its expiry
StaleAtExpiry(entry, t) == t >= entry.expiry

\* Date.now() > entry.expiry
Stale(entry, t) == t > entry.expiry

\* get(key)
CacheGet(k) ==
    /\ CacheOps(discourseCache) < MaxCacheOps
    /\ LET entry == discourseCache.cache[k]
       IN  discourseCache' =
              IF entry = NoEntry \/ Stale(entry, now)
              THEN [discourseCache EXCEPT
                       !.cache[k] = NoEntry,
                       !.stats.misses = @ + 1,
                       !.last = [op |-> "get", key |-> k, result |-> NoEntry]]
              ELSE [discourseCache EXCEPT
                       !.stats.hits = @ + 1,
                       !.last = [op |-> "get", key |-> k, result |-> entry]]
    /\ UNCHANGED <<pureVars, srvVars, redisVars, gateVars, discourseMetrics, discourseCheck>>

\* set(key, response)
CacheSet(k, r) ==
    /\ CacheOps(discourseCache) < MaxCacheOps
    /\ LET entry == [response |-> r, expiry |-> now + CacheTTL]
       IN  discourseCache' = [discourseCache EXCEPT
              !.cache[k] = entry,
              !.stats.sets = @ + 1,
              !.lastSet[k] = entry,
              !.last = [op |-> "set", key |-> k, result |-> NoEntry]]
    /\ UNCHANGED <<pureVars, srvVars, redisVars, gateVars, discourseMetrics, discourseCheck>>

\* clear()
CacheClear ==
    /\ discourseCache.last.op # "clear"
    /\ discourseCache' = [discourseCache EXCEPT
          !.cache = [k \in CacheKeys |-> NoEntry],
          !.lastSet = [k \in CacheKeys |-> NoEntry],
          !.last = [op |-> "clear", key |-> "", result |-> NoEntry]]
    /\ UNCHANGED <<pureVars, srvVars, redisVars, gateVars, discourseMetrics, discourseCheck>>

\* time passes
CacheTick ==
    /\ now < MaxCacheTicks * CacheTickMs
    /\ now' = now + CacheTickMs
    /\ UNCHANGED <<nextSweepAt, lastSweepAt, sessVars, reqVars, history>>
    /\ UNCHANGED offVars

InitCache == ServerIdle /\ NoCall

NextCache ==
    \/ \E k \in CacheKeys : CacheGet(k)
    \/ \E k \in CacheKeys, r \in CacheResponses : CacheSet(k, r)
    \/ CacheClear
    \/ CacheTick

SpecCache == InitCache /\ [][NextCache]_vars

\* C21: get(key) returns the entry last set under key while its TTL has not
\* run out and null otherwise; an expired entry is removed by the get that
\* finds it; an entry leaves the cache only through such a get or clear().
C21_CacheContract ==
    [][LET c == discourseCache
           d == discourseCache'
       IN  /\ d.last.op = "get" /\ d # c =>
                LET k == d.last.key
                    set == c.lastSet[k]
                IN  /\ d.last.result =
                          IF set # NoEntry /\ now <= set.expiry THEN set ELSE NoEntry
                    /\ (c.cache[k] # NoEntry /\ now > c.cache[k].expiry) =>
                          d.cache[k] = NoEntry
           /\ \A k \in CacheKeys :
                 (c.cache[k] # NoEntry /\ d.cache[k] = NoEntry) =>
                    \/ d.last.op = "clear"
                    \/ d.last.op = "get" /\ d.last.key = k /\ now > c.cache[k].expiry
           /\ \A k \in CacheKeys :
                 (c.cache[k] # NoEntry /\ d.cache[k] # c.cache[k] /\ d.cache[k] # NoEntry) =>
                    d.last.op = "set" /\ d.last.key = k]_vars

\* a get finds an entry past its expiry, answers null and removes it
C21_Witness ==
    /\ discourseCache.last.op = "get"
    /\ discourseCache.last.result = NoEntry
    /\ discourseCache.lastSet[discourseCache.last.key] # NoEntry
    /\ discourseCache.lastSet[discourseCache.last.key].expiry < now
    /\ discourseCache.cache[discourseCache.last.key] = NoEntry
    /\ discourseCache.stats.misses = 1

(***************************************************************************)
(* validateDiscourseResponse                                               *)
(* (src/src/middleware/discourseSecurityMiddleware.ts 319-376)             *)
(***************************************************************************)
DiscourseCodeWeight == 25
DiscourseCitationWeight == 30
DiscourseStepWeight == 20
DiscourseLinkWeight == 15
DiscourseLengthWeight == 10
DiscourseRelevanceWeight == 25
DiscourseLongAnswer == 200
HighScore == 80
MediumScore == 60

\* answer.includes('```')
DiscourseHasCode(a) == Contains(a, BT3)

\* /step \d+|1\.|2\.|3\.|<bullet>|\*/i; the texts hold no bullet character
DiscourseHasSteps(a) ==
    LET lower == toLowerCase(a)
    IN  \E i \in 1..Len(a) :
            \/ LitAt(lower, i, "step ") /\ IsDigit(At(a, i + 5))
            \/ At(a, i) \in {"1", "2", "3"} /\ At(a, i + 1) = "."
            \/ At(a, i) = "*"

\* /\[.*?\]\(.*?\)/
DiscourseHasLinks(a) == GapMatch3(a, "[", "](", ")")

\* queryWords.filter(word => answerWords.includes(word)).length
MatchingWords(q, a) ==
    LET queryWords == Split(toLowerCase(q))
        answerWords == Split(toLowerCase(a))
    IN  Cardinality({i \in 1..Len(queryWords) :
                        \E j \in 1..Len(answerWords) : answerWords[j] = queryWords[i]})

\* the levels with the thresholds excluded
DiscourseConfidenceAbove(num, den) ==
    IF num > HighScore * den THEN "HIGH"
    ELSE IF num > MediumScore * den THEN "MEDIUM"
    ELSE "LOW"

\* the if / else if / else on score, for score = num / den
DiscourseConfidence(num, den) ==
    IF num >= HighScore * den THEN "HIGH"
    ELSE IF num >= MediumScore * den THEN "MEDIUM"
    ELSE "LOW"

\* The relevance term is matching / queryWords.length * 25, so the score is
\* kept as the fraction num / den with den = queryWords.length. (Where
\* the score meets a threshold the relevance term is a multiple of 5, which
\* the floating-point product yields exactly.)
validateDiscourseResponse(a, nsources, q) ==
    LET den == Len(Split(toLowerCase(q)))
        base == (IF DiscourseHasCode(a) THEN DiscourseCodeWeight ELSE 0)
                  + (IF nsources > 0 THEN DiscourseCitationWeight ELSE 0)
                  + (IF DiscourseHasSteps(a) THEN DiscourseStepWeight ELSE 0)
                  + (IF DiscourseHasLinks(a) THEN DiscourseLinkWeight ELSE 0)
                  + (IF Len(a) > DiscourseLongAnswer THEN DiscourseLengthWeight ELSE 0)
        num == base * den + MatchingWords(q, a) * DiscourseRelevanceWeight
        level == DiscourseConfidence(num, den)
    IN  [confidence |-> level, should_post |-> level \in {"HIGH", "MEDIUM"},
         scoreNum |-> num, scoreDen |-> den]

MaxDiscourseFragments == 3

DiscourseFragments ==
    {"~~~js\nrun()\n~~~ ", "Step 1 install ", "[Guide](https://d/g) ",
     Repeat("ok-", 67) \o " ", "configure ", "How "}
DiscourseQueries == {"configure", "how configure", "How do I configure X?"}

InitDiscourseCheck ==
    /\ discourseCheck \in
          [answer : TextsOf(DiscourseFragments, MaxDiscourseFragments),
           sources : 0..1, query : DiscourseQueries, result : {NoResult}]
    /\ discourseCache = EmptyCache
    /\ discourseMetrics = NoMetrics
    /\ limiter = IdleLimiter
    /\ captcha = IdleCaptcha
    /\ chat = IdleChat
    /\ redisClient = FALSE
    /\ cacheEnabled = FALSE
    /\ redisStore = EmptyStore
    /\ now = 0
    /\ nextSweepAt = CleanupInterval
    /\ lastSweepAt = -1
    /\ sessionObjs = <<>>
    /\ conversationSessions = {}
    /\ appended = <<>>
    /\ reqs = [r \in Slots |-> IdleRequest]
    /\ started = 0
    /\ history = NoHistory
    /\ enhancerEnabled = FALSE
    /\ NoCall

ValidateDiscourse ==
    /\ discourseCheck.result = NoResult
    /\ discourseCheck' =
          [discourseCheck EXCEPT !.result =
              validateDiscourseResponse(discourseCheck.answer, discourseCheck.sources,
                                        discourseCheck.query)]
    /\ UNCHANGED <<pureVars, srvVars, redisVars, gateVars, discourseCache, discourseMetrics>>

NextDiscourseCheck == ValidateDiscourse

SpecDiscourseCheck == InitDiscourseCheck /\ [][NextDiscourseCheck]_vars

\* the documented sum, times the number of query words
DocumentedScoreTimes(c, n) ==
    n * ((IF Contains(c.answer, BT3) THEN 25 ELSE 0)
           + (IF c.sources >= 1 THEN 30 ELSE 0)
           + (IF DiscourseHasSteps(c.answer) THEN 20 ELSE 0)
           + (IF DiscourseHasLinks(c.answer) THEN 15 ELSE 0)
           + (IF Len(c.answer) >= 201 THEN 10 ELSE 0))
        + 25 * MatchingWords(c.query, c.answer)

\* C22: confidence is HIGH exactly for a score of 80 or more, MEDIUM exactly
\* for a score from 60 up to 80, LOW exactly below 60; should_post is true
\* exactly when the confidence is not LOW; the score is the sum of code 25,
\* citations 30, steps 20, links 15, length over 200 characters 10 and the
\* share of matching query words times 25.
C22_ConfidenceLevels ==
    discourseCheck.result # NoResult =>
        LET r == discourseCheck.result
            n == r.scoreDen
            s == DocumentedScoreTimes(discourseCheck, n)
        IN  /\ n >= 1
            /\ r.scoreNum = s
            /\ s >= 0 /\ s <= 125 * n
            /\ (r.confidence = "HIGH") = (s >= 80 * n)
            /\ (r.confidence = "MEDIUM") = (s >= 60 * n /\ s < 80 * n)
            /\ (r.confidence = "LOW") = (s < 60 * n)
            /\ r.should_post = (r.confidence # "LOW")

\* a score of exactly 80 rated HIGH
C22_Witness ==
    /\ discourseCheck.result # NoResult
    /\ discourseCheck.result.scoreNum = 80 * discourseCheck.result.scoreDen
    /\ discourseCheck.result.confidence = "HIGH"
    /\ discourseCheck.result.should_post

(***************************************************************************)
(* The answer endpoints with every provider reply held fixed               *)
(***************************************************************************)
\* Every classification, answer and follow-up call gets the same reply, so
\* two requests with the same body receive the same provider replies.
InitFixedReplies == ServerIdle /\ NoCall

NextFixedReplies ==
    \/ sessionObjs = <<>> /\ CreateSession
    \/ \E r \in Slots, e \in {"plain", "memory"}, sid \in {0, 1} :
          started < MaxRequests /\ Receive(r, e, ConfigureQuery, GoodDocuments, sid)
    \/ \E r \in Slots : ClassificationSettles(r, ReplyObject(BaseFields))
    \/ \E r \in Slots : AnswerSettles(r, AnswerContent(GoodAnswer))
    \/ \E r \in Slots : FollowUpSettles(r, ReplyValue(Arr(<<"a?", "b?", "c?", "d?">>)))

SpecFixedReplies == InitFixedReplies /\ [][NextFixedReplies]_vars

\* C23 (as claimed): no session is kept in memory and each request is
\* handled independently: two requests with the same body that receive the
\* same provider replies get the same response, whatever was handled before.
C23_Original ==
    \A r1, r2 \in Slots :
        (/\ reqs[r1].pc = "done"
         /\ reqs[r2].pc = "done"
         /\ reqs[r1].endpoint = reqs[r2].endpoint
         /\ reqs[r1].query = reqs[r2].query
         /\ reqs[r1].documents = reqs[r2].documents
         /\ reqs[r1].sessionId = reqs[r2].sessionId)
        => reqs[r1].resp = reqs[r2].resp

(***************************************************************************)
(* Claims about overlapping requests on one session                        *)
(***************************************************************************)
\* the requests whose answer call succeeds in this step and that hold session s
AnswerCompletes(s) ==
    {r \in Slots : /\ reqs[r].pc = "answer"
                   /\ reqs'[r].pc = "followup"
                   /\ reqs[r].session = s}

\* C24: with overlapping generate-answer-with-memory requests on one existing
\* session, the turn list changes only when an answer call succeeds, and then
\* by exactly one new turn, that request's, placed after the turns stored
\* before it (the oldest dropped beyond 10 turns); so every successful
\* request's turn is stored once, in the order the answer calls completed.
C24_TurnsInCompletionOrder ==
    [][\A s \in 1..Len(sessionObjs) :
          LET before == sessionObjs[s].turns
              after == sessionObjs'[s].turns
              n == Len(before)
          IN  IF AnswerCompletes(s) = {}
              THEN after = before
              ELSE /\ Cardinality(AnswerCompletes(s)) = 1
                   /\ \E r \in AnswerCompletes(s) :
                         /\ after[Len(after)].query = reqs[r].query
                         /\ after[Len(after)].timestamp = now
                         /\ \A i \in 1..n : before[i].seq < after[Len(after)].seq
                   /\ IF n < 10
                      THEN Len(after) = n + 1 /\ SubSeq(after, 1, n) = before
                      ELSE Len(after) = 10 /\ SubSeq(after, 1, 9) = SubSeq(before, 2, 10)]_vars

\* two requests on session 1 are in flight together, both past their answer
\* call, and the session holds the two turns they stored
C24_Witness ==
    /\ reqs[1].pc = "followup" /\ reqs[1].session = 1
    /\ reqs[2].pc = "followup" /\ reqs[2].session = 1
    /\ Len(appended[1]) = 2
    /\ Len(sessionObjs[1].turns) = 2
    /\ sessionObjs[1].turns[1].seq = 1
    /\ sessionObjs[1].turns[2].seq = 2

(***************************************************************************)
(* Claims about the order of the calls of a multi-source search            *)
(***************************************************************************)
SearchKinds == {"github", "changelog"}

\* C25: in multi-source-search the source searches are started together, in
\* the step that receives the request; the aggregation call is issued at most
\* once, only in a step after which no search is outstanding, in whatever
\* order the searches finish; a request answered with success has issued it
\* exactly once.
C25_AggregationAfterAllSearches ==
    /\ [][\A r \in Slots :
             /\ (\E k \in SearchKinds : reqs'[r].calls[k] > reqs[r].calls[k]) =>
                   /\ reqs[r].pc \in {"idle", "done"}
                   /\ reqs'[r].endpoint = "multi"
                   /\ \A k \in SearchKinds :
                         reqs'[r].calls[k] = IF k \in reqs'[r].pending THEN 1 ELSE 0
                   /\ reqs'[r].calls["aggregation"] = 0
             /\ reqs'[r].calls["aggregation"] > reqs[r].calls["aggregation"] =>
                   /\ reqs'[r].calls["aggregation"] = 1
                   /\ reqs'[r].pending = {}
                   /\ reqs'[r].endpoint = "multi"]_vars
    /\ [](\A r \in Slots :
             reqs[r].endpoint = "multi" =>
                /\ reqs[r].calls["aggregation"] <= 1
                /\ (reqs[r].calls["aggregation"] = 1 => reqs[r].pending = {})
                /\ (reqs[r].pc = "done" /\ reqs[r].resp.status = Ok =>
                       reqs[r].calls["aggregation"] = 1))

\* both fetching searches were started and have finished with results, the
\* aggregation call is out
C25_Witness ==
    \E r \in Slots :
        /\ reqs[r].endpoint = "multi"
        /\ reqs[r].pc = "aggregate"
        /\ reqs[r].calls["github"] = 1
        /\ reqs[r].calls["changelog"] = 1
        /\ reqs[r].calls["aggregation"] = 1
        /\ reqs[r].found.github # <<>>
        /\ reqs[r].found.changelog # <<>>

(***************************************************************************)
(* The response cache of OpenAIService.createChatCompletion                *)
(***************************************************************************)
NextCacheAside ==
    \/ NextChat
    \/ ProviderSettles(AnswerContent("See the guide."))
    \/ CacheTick

SpecCacheAside == InitChat /\ [][NextCacheAside]_vars

\* what redisClient.get(key) returns at this moment for the request in progress
CachedNow == RedisGet(generateCacheKey(chat.body), now)

\* C26: with caching enabled createChatCompletion is a plain cache-aside.
\* A non-streaming request whose key the cache returns is answered with the
\* cached response and no provider call; on a miss the request is validated
\* and the provider called once, and its response is written under the
\* request's key with the configured TTL; nothing else writes the cache, so a
\* failed or invalid request stores nothing; a streaming request sends
\* neither a read nor a write.
C26_CacheAside ==
    /\ [][cacheEnabled =>
            \* a cache read that was answered: a value is returned as the
            \* response, without a provider call
            /\ (chat.pc = "cache-get" /\ chat'.read \in {"value", "null"} =>
                   /\ ~chat.stream
                   /\ (chat'.read = "value") = (CachedNow # "")
                   /\ (chat'.read = "value" =>
                          /\ chat'.pc = "done"
                          /\ chat'.from = "cache"
                          /\ chat'.response = JSONParse(CachedNow)
                          /\ chat'.sent.provider = 0))
            \* the provider is called once, for a validated request, and after
            \* a cache read unless the cache is out of use for the request
            /\ (chat'.sent.provider > chat.sent.provider =>
                   /\ chat'.sent.provider = 1
                   /\ validateChatRequest(chat'.body)
                   /\ (chat'.stream \/ ~redisClient \/ chat'.read \in {"null", "failed"}))
            \* the response of the provider is sent to the cache
            /\ (chat.pc = "provider" /\ chat'.from = "provider" /\ ~chat.stream
                   /\ redisClient =>
                   chat'.pc = "cache-set" /\ chat'.sent.cacheSet = 1)
            \* the only write: the response of the provider under the key of
            \* the request, for the configured TTL
            /\ (redisStore' # redisStore =>
                   /\ chat.pc = "cache-set"
                   /\ ~chat.stream
                   /\ validateChatRequest(chat.body)
                   /\ chat.from = "provider"
                   /\ chat.sent.provider = 1
                   /\ redisStore' =
                         [redisStore EXCEPT ![generateCacheKey(chat.body)] =
                             [value |-> JSONStringify(chat.response),
                              expiry |-> now + ChatCacheTTL * 1000]])]_vars
    /\ [](cacheEnabled /\ chat.stream =>
             chat.sent.cacheGet = 0 /\ chat.sent.cacheSet = 0 /\ chat.from # "cache")
    /\ [](cacheEnabled /\ (~validateChatRequest(chat.body) \/ chat.status >= BadRequest) =>
             chat.pc \notin {"cache-set"} /\ chat.sent.cacheSet = 0)

\* half an hour after its response was stored, the same request is answered
\* from the cache without a provider call
C26_Witness ==
    /\ cacheEnabled
    /\ chat.pc = "done"
    /\ chat.from = "cache"
    /\ chat.response = GoodAnswer
    /\ chat.sent.provider = 0
    /\ now = CacheTickMs
    /\ redisStore[generateCacheKey(chat.body)].expiry = ChatCacheTTL * 1000

(***************************************************************************)
(* Requests with memory on two sessions, the answer call failing or not    *)
(***************************************************************************)
InitTwoSessions == ServerIdle /\ NoCall

NextTwoSessions ==
    \/ Len(sessionObjs) < 2 /\ CreateSession
    \/ \E r \in Slots, sid \in {1, 2} :
          started < MaxRequests /\ Receive(r, "memory", ConfigureQuery, GoodDocuments, sid)
    \/ \E r \in Slots, rep \in ClassifierOutcomes : ClassificationSettles(r, rep)
    \/ \E r \in Slots, out \in AnswerOutcomes \cup {AnswerFailed(429)} : AnswerSettles(r, out)
    \/ \E r \in Slots, rep \in FollowUpOutcomes : FollowUpSettles(r, rep)
    \/ now = 0 /\ Tick

SpecTwoSessions == InitTwoSessions /\ [][NextTwoSessions]_vars

\* the requests whose answer call fails in this step
AnswerFails == {r \in Slots : reqs[r].pc = "answer" /\ reqs'[r].pc = "done"}

\* C27: a turn is added to a session only by the step in which the answer
\* call of a request holding that session succeeds. When the answer call
\* fails the request is answered with an error and no session changes; over
\* its whole handling such a request changes nothing but the lastActiveAt of
\* its own session, on arrival.
C27_FailedAnswerStoresNothing ==
    [][/\ \A s \in 1..Len(sessionObjs) :
             /\ sessionObjs'[s].turns # sessionObjs[s].turns => AnswerCompletes(s) # {}
             /\ sessionObjs'[s] # sessionObjs[s] /\ AnswerCompletes(s) = {} =>
                   /\ sessionObjs'[s] = [sessionObjs[s] EXCEPT !.lastActiveAt = now]
                   /\ \E r \in Slots : /\ reqs[r].pc \in {"idle", "done"}
                                       /\ reqs'[r].pc = "classify"
                                       /\ reqs'[r].sessionId = s
       /\ \A r \in AnswerFails :
             /\ reqs'[r].resp.status >= BadRequest
             /\ reqs'[r].resp.at = "answer"
             /\ sessionObjs' = sessionObjs
             /\ conversationSessions' = conversationSessions]_vars

\* the answer call of a request on session 1 has failed: the request is
\* answered 429, session 1 holds the one turn stored before and was touched
\* after it, session 2 holds none
C27_Witness ==
    /\ Len(sessionObjs) = 2
    /\ \E r \in Slots :
          /\ reqs[r].pc = "done"
          /\ reqs[r].session = 1
          /\ reqs[r].resp.at = "answer"
          /\ reqs[r].resp.status = 429
    /\ Len(appended[1]) = 1
    /\ Len(sessionObjs[1].turns) = 1
    /\ sessionObjs[1].lastActiveAt > sessionObjs[1].turns[1].timestamp
    /\ sessionObjs[2].turns = <<>>

(***************************************************************************)
(* A request with memory while the clock runs and the sweep fires          *)
(***************************************************************************)
\* one request, suspended on its model calls for any length of time
InitSuspended == ServerIdle /\ NoCall

NextSuspended ==
    \/ sessionObjs = <<>> /\ CreateSession
    \/ started = 0 /\ Receive(1, "memory", ConfigureQuery, GoodDocuments, 1)
    \/ ClassificationSettles(1, ReplyObject(BaseFields))
    \/ \E out \in AnswerOutcomes : AnswerSettles(1, out)
    \/ FollowUpSettles(1, ReplyValue(Arr(<<"a?", "b?", "c?", "d?">>)))
    \/ now < MaxTicks * TickMs /\ Tick
    \/ Sweep

SpecSuspended == InitSuspended /\ [][NextSuspended]_vars

\* C28 (as claimed): whenever generate-answer-with-memory responds with a
\* sessionId, that session is in the session store at the time of the
\* response and holds the turn of this request, also when the sweep has run
\* while the request was suspended on a model call.
C28_Original ==
    [][\A r \in Slots :
          reqs[r].pc = "followup" /\ reqs'[r].pc = "done" /\ reqs'[r].resp.sessionId # 0 =>
             /\ reqs'[r].resp.sessionId \in conversationSessions'
             /\ \E i \in 1..Len(sessionObjs'[reqs'[r].resp.sessionId].turns) :
                   sessionObjs'[reqs'[r].resp.sessionId].turns[i].query = reqs[r].query]_vars

(***************************************************************************)
(* The body of a streaming chat completion                                 *)
(***************************************************************************)
\* the data events of the first n chunks of the provider's stream
DataEvents(n) == [i \in 1..n |-> DataEvent(JSONStringify(StreamChunks[i]))]

ErrorPrefix == "data: {error: "
IsErrorEvent(e) ==
    Len(e) > Len(ErrorPrefix) /\ SubSeq(e, 1, Len(ErrorPrefix)) = ErrorPrefix

\* events were written after those of before
Extends(after, before) ==
    Len(after) > Len(before) /\ SubSeq(after, 1, Len(before)) = before

\* a streaming request that passed the validation of the route
Streamed == chat.stream /\ chat.status # BadRequest /\ chat.pc # "idle"

\* C29: the body of a streaming chat completion is the chunks the provider
\* yielded, each as a data event, in order, followed by exactly one
\* terminator: data: [DONE] when the stream finished, one error event when
\* the call or the stream failed; [DONE] never follows an error, nothing
\* follows the terminator and the response is ended exactly once.
C29_StreamTerminatedOnce ==
    /\ [](Streamed =>
            /\ chat.pc # "done" =>
                  /\ chat.written = DataEvents(chat.yielded)
                  /\ chat.ended = 0
            /\ chat.pc = "done" =>
                  /\ Len(chat.written) = chat.yielded + 1
                  /\ SubSeq(chat.written, 1, chat.yielded) = DataEvents(chat.yielded)
                  /\ chat.ended = 1
                  /\ chat.finished \in {"complete", "failed"}
                  /\ (chat.finished = "complete") =
                        (chat.written[chat.yielded + 1] = DoneEvent)
                  /\ (chat.finished = "failed") =
                        IsErrorEvent(chat.written[chat.yielded + 1]))
    /\ [][Streamed /\ chat.ended > 0 =>
            /\ ~Extends(chat'.written, chat.written)
            /\ chat'.ended <= 1]_vars

\* the provider's stream broke after its first chunk: one data event, then
\* one error event, and the response ended
C29_Witness ==
    /\ Streamed
    /\ chat.pc = "done"
    /\ chat.yielded = 1
    /\ chat.written = <<DataEvent(JSONStringify("delta-1")), ErrorEvent("aborted")>>
    /\ chat.ended = 1

(***************************************************************************)
(* logDiscourseMetrics (discourseSecurityMiddleware.ts 116-124, 378-403)   *)
(***************************************************************************)
\* the argument of logDiscourseMetrics; success and confidence may be absent
Metrics(success, confidence, processing_time) ==
    [success |-> success, confidence |-> confidence, processing_time |-> processing_time]

\* the keys of confidence_distribution as declared
DistributionKeys == {"HIGH", "MEDIUM", "LOW"}

\* keys that the in operator finds on Object.prototype
PrototypeKeys == {"toString", "constructor"}

\* metrics.confidence && metrics.confidence in confidence_distribution
InDistribution(d, confidence) ==
    confidence # "" /\ confidence \in DistributionKeys \cup PrototypeKeys \cup d.extra

\* confidence_distribution[metrics.confidence]++
CountConfidence(d, confidence) ==
    IF confidence = "HIGH" THEN [d EXCEPT !.HIGH = @ + 1]
    ELSE IF confidence = "MEDIUM" THEN [d EXCEPT !.MEDIUM = @ + 1]
    ELSE IF confidence = "LOW" THEN [d EXCEPT !.LOW = @ + 1]
    ELSE [d EXCEPT !.extra = @ \cup {confidence}]

\* the function counting the confidence of failed requests as well
logDiscourseMetricsCountingFailed(d, metrics) ==
    LET counted == IF InDistribution(d, metrics.confidence)
                   THEN CountConfidence(d, metrics.confidence) ELSE d
        branch == IF metrics.success
                  THEN [counted EXCEPT !.requests_successful = @ + 1]
                  ELSE [counted EXCEPT !.requests_failed = @ + 1]
    IN  [branch EXCEPT !.requests_total = @ + 1,
                       !.processing_sum = @ + metrics.processing_time,
                       !.calls = @ + 1]

\* logDiscourseMetrics(metrics) applied to the discourseMetrics object d
logDiscourseMetrics(d, metrics) ==
    LET branch ==
            IF metrics.success
            THEN LET counted == [d EXCEPT !.requests_successful = @ + 1]
                 IN  IF InDistribution(d, metrics.confidence)
                     THEN CountConfidence(counted, metrics.confidence)
                     ELSE counted
            ELSE [d EXCEPT !.requests_failed = @ + 1]
    IN  [branch EXCEPT !.requests_total = @ + 1,
                       !.processing_sum = @ + metrics.processing_time,
                       !.calls = @ + 1]

MaxMetricCalls == 4
MetricInputs ==
    {Metrics(s, c, 100) : s \in BOOLEAN,
                          c \in DistributionKeys \cup {"", "UNKNOWN", "toString"}}

LogMetrics(metrics) ==
    /\ discourseMetrics.calls < MaxMetricCalls
    /\ discourseMetrics' = logDiscourseMetrics(discourseMetrics, metrics)
    /\ UNCHANGED <<pureVars, srvVars, redisVars, gateVars, discourseCache, discourseCheck>>

InitMetrics == ServerIdle /\ NoCall

NextMetrics == \E metrics \in MetricInputs : LogMetrics(metrics)

SpecMetrics == InitMetrics /\ [][NextMetrics]_vars

\* C30: after any sequence of logDiscourseMetrics calls requests_total equals
\* requests_successful + requests_failed and the number of calls made, and the
\* three counts of confidence_distribution add up to at most
\* requests_successful.
C30_MetricsAddUp ==
    /\ discourseMetrics.requests_total =
          discourseMetrics.requests_successful + discourseMetrics.requests_failed
    /\ discourseMetrics.requests_total = discourseMetrics.calls
    /\ discourseMetrics.HIGH + discourseMetrics.MEDIUM + discourseMetrics.LOW
          <= discourseMetrics.requests_successful

\* three calls: a successful HIGH, a success without a known confidence, and
\* a failure
C30_Witness ==
    /\ discourseMetrics.calls = 3
    /\ discourseMetrics.requests_successful = 2
    /\ discourseMetrics.requests_failed = 1
    /\ discourseMetrics.HIGH = 1
    /\ discourseMetrics.MEDIUM = 0
    /\ discourseMetrics.LOW = 0

====
